---- MODULE Spec2Model ----
(***************************************************************************)
(* Moddo: the feedback classifier / parameter extractor of                 *)
(* app/api/projects/[id]/feedback/route.ts and the two printability        *)
(* analyzers (analyzePrintability of the model route and                   *)
(* STLConverter.validateForPrinting of the stl route), and the POST         *)
(* handlers of the projects, feedback, model and stl routes over the       *)
(* Firestore collections 'projects' and 'feedback'.                        *)
(*                                                                         *)
(* A text is a TLA+ string, i.e. a sequence of characters; Len, SubSeq and *)
(* \o act on it as on any sequence.  A JavaScript number is an extended    *)
(* rational [num, den] with den >= 0: den = 1 is an integer, den = 2 a     *)
(* half, 1/0 is Infinity and 0/0 is NaN (every comparison with it is       *)
(* false, as in IEEE 754).                                                 *)
(***************************************************************************)
EXTENDS Integers, Sequences, FiniteSets, TLC

VARIABLES
    text,                 \* the feedbackText argument of both feedback functions
    feedbackType,         \* value returned by determineFeedbackType(text)
    extractedParameters,  \* value returned by extractFeedbackParameters(text)
    meshData,             \* the mesh statistics handed to the analyzers
    verdictA,             \* value returned by analyzePrintability(meshData)
    verdictB,             \* value returned by validateForPrinting(meshData)
    returned,             \* the functions that have returned so far
    projects,             \* the Firestore collection 'projects': id -> document
    feedback,             \* the Firestore collection 'feedback': a set of documents
    requests,             \* the HTTP requests being handled: slot -> handler state
    redirects,            \* the download redirects served so far: project id -> number
    flow,                 \* the state of the useProjectFlow hook
    lastCall              \* the operation of useProjectFlow called last, with its argument

functionVars == <<text, feedbackType, extractedParameters, meshData, verdictA, verdictB, returned>>
apiVars == <<projects, feedback, requests>>
clientVars == <<redirects, flow, lastCall>>
vars == <<text, feedbackType, extractedParameters, meshData, verdictA, verdictB, returned,
          projects, feedback, requests, redirects, flow, lastCall>>

(***************************************************************************)
(* Bounds                                                                  *)
(***************************************************************************)
\* a text is made of at most MaxFragments fragments of the CoreVocabulary
MaxFragments == 3
\* mesh statistics are taken within Spread of every threshold
Spread == 1
\* at most MaxFeedback feedback documents are created
MaxFeedback == 1

(***************************************************************************)
(* Strings                                                                 *)
(***************************************************************************)
UpperCase == <<"A","B","C","D","E","F","G","H","I","J","K","L","M",
               "N","O","P","Q","R","S","T","U","V","W","X","Y","Z">>
LowerCase == <<"a","b","c","d","e","f","g","h","i","j","k","l","m",
               "n","o","p","q","r","s","t","u","v","w","x","y","z">>

\* the lower-case letter of every upper-case letter
UpperToLower ==
    [c \in {UpperCase[i] : i \in 1..Len(UpperCase)} |->
        LowerCase[CHOOSE i \in 1..Len(UpperCase) : UpperCase[i] = c]]

\* String.prototype.toLowerCase on one character
toLowerChar(c) == IF c \in DOMAIN UpperToLower THEN UpperToLower[c] ELSE c

\* String.prototype.toLowerCase
RECURSIVE toLowerCase(_)
toLowerCase(s) ==
    IF Len(s) = 0 THEN ""
    ELSE toLowerChar(SubSeq(s, 1, 1)) \o toLowerCase(SubSeq(s, 2, Len(s)))

\* String.prototype.includes: k occurs in s as a contiguous substring
includes(s, k) ==
    \E i \in 1..(Len(s) - Len(k) + 1) : SubSeq(s, i, i + Len(k) - 1) = k

(***************************************************************************)
(* Objects                                                                 *)
(***************************************************************************)
\* the value undefined, distinct from every object
Undefined == [undefined |-> TRUE]
\* the object literal {}
EmptyObject == <<>>
\* obj.key = val
SetField(obj, key, val) == (key :> val) @@ obj
\* Object.keys(obj)
ObjectKeys(obj) == DOMAIN obj

(***************************************************************************)
(* extractFeedbackParameters                                               *)
(***************************************************************************)
\* SizeAdjustments with four separate ifs instead of one else-if chain
SizeAdjustments_separateIfs(lowerText, parameters) ==
    LET p1 == IF includes(lowerText, "bigger") \/ includes(lowerText, "larger")
                 \/ includes(lowerText, "increase size")
              THEN SetField(parameters, "sizeAdjustment", "larger") ELSE parameters
        p2 == IF includes(lowerText, "smaller") \/ includes(lowerText, "reduce size")
                 \/ includes(lowerText, "compact")
              THEN SetField(p1, "sizeAdjustment", "smaller") ELSE p1
        p3 == IF includes(lowerText, "wider") \/ includes(lowerText, "broader")
              THEN SetField(p2, "sizeAdjustment", "wider") ELSE p2
        p4 == IF includes(lowerText, "taller") \/ includes(lowerText, "higher")
              THEN SetField(p3, "sizeAdjustment", "taller") ELSE p3
    IN  p4

\* "Size adjustments": the if / else-if chain that sets parameters.sizeAdjustment
SizeAdjustments(lowerText, parameters) ==
    IF includes(lowerText, "bigger") \/ includes(lowerText, "larger")
       \/ includes(lowerText, "increase size")
    THEN SetField(parameters, "sizeAdjustment", "larger")
    ELSE IF includes(lowerText, "smaller") \/ includes(lowerText, "reduce size")
            \/ includes(lowerText, "compact")
    THEN SetField(parameters, "sizeAdjustment", "smaller")
    ELSE IF includes(lowerText, "wider") \/ includes(lowerText, "broader")
    THEN SetField(parameters, "sizeAdjustment", "wider")
    ELSE IF includes(lowerText, "taller") \/ includes(lowerText, "higher")
    THEN SetField(parameters, "sizeAdjustment", "taller")
    ELSE parameters

\* MaterialChanges with the PLA branch tested before the TPU branch
MaterialChanges_plaFirst(lowerText, parameters) ==
    IF includes(lowerText, "rigid") \/ includes(lowerText, "hard")
       \/ includes(lowerText, "pla")
    THEN SetField(parameters, "materialChange", "PLA")
    ELSE IF includes(lowerText, "flexible") \/ includes(lowerText, "rubbery")
            \/ includes(lowerText, "tpu")
    THEN SetField(parameters, "materialChange", "TPU")
    ELSE IF includes(lowerText, "durable") \/ includes(lowerText, "strong")
            \/ includes(lowerText, "petg")
    THEN SetField(parameters, "materialChange", "PETG")
    ELSE IF includes(lowerText, "abs")
    THEN SetField(parameters, "materialChange", "ABS")
    ELSE parameters

\* "Material changes": the if / else-if chain that sets parameters.materialChange
MaterialChanges(lowerText, parameters) ==
    IF includes(lowerText, "flexible") \/ includes(lowerText, "rubbery")
       \/ includes(lowerText, "tpu")
    THEN SetField(parameters, "materialChange", "TPU")
    ELSE IF includes(lowerText, "rigid") \/ includes(lowerText, "hard")
            \/ includes(lowerText, "pla")
    THEN SetField(parameters, "materialChange", "PLA")
    ELSE IF includes(lowerText, "durable") \/ includes(lowerText, "strong")
            \/ includes(lowerText, "petg")
    THEN SetField(parameters, "materialChange", "PETG")
    ELSE IF includes(lowerText, "abs")
    THEN SetField(parameters, "materialChange", "ABS")
    ELSE parameters

\* FunctionalChanges with the four ifs joined into one else-if chain
FunctionalChanges_elseIf(lowerText) ==
    IF includes(lowerText, "hole") \/ includes(lowerText, "opening")
    THEN <<"Add holes or openings">>
    ELSE IF includes(lowerText, "grip") \/ includes(lowerText, "texture")
    THEN <<"Add grip texture">>
    ELSE IF includes(lowerText, "compartment") \/ includes(lowerText, "section")
    THEN <<"Add compartments">>
    ELSE IF includes(lowerText, "smooth") \/ includes(lowerText, "rounded")
    THEN <<"Smooth edges">>
    ELSE <<>>

\* "Functional changes": the four separate ifs that push onto functionalChanges
FunctionalChanges(lowerText) ==
    LET functionalChanges0 == <<>>
        functionalChanges1 ==
            IF includes(lowerText, "hole") \/ includes(lowerText, "opening")
            THEN Append(functionalChanges0, "Add holes or openings")
            ELSE functionalChanges0
        functionalChanges2 ==
            IF includes(lowerText, "grip") \/ includes(lowerText, "texture")
            THEN Append(functionalChanges1, "Add grip texture")
            ELSE functionalChanges1
        functionalChanges3 ==
            IF includes(lowerText, "compartment") \/ includes(lowerText, "section")
            THEN Append(functionalChanges2, "Add compartments")
            ELSE functionalChanges2
        functionalChanges4 ==
            IF includes(lowerText, "smooth") \/ includes(lowerText, "rounded")
            THEN Append(functionalChanges3, "Smooth edges")
            ELSE functionalChanges3
    IN  functionalChanges4

\* extractFeedbackParameters returning the parameters object even when it is empty
extractFeedbackParameters_returnsObject(feedbackText) ==
    LET lowerText == toLowerCase(feedbackText)
        parameters2 == MaterialChanges(lowerText, SizeAdjustments(lowerText, EmptyObject))
        functionalChanges == FunctionalChanges(lowerText)
    IN  IF Len(functionalChanges) > 0
        THEN SetField(parameters2, "functionalChanges", functionalChanges)
        ELSE parameters2

\* extractFeedbackParameters with the material chain hanging off the size chain
\* as further else-if branches
extractFeedbackParameters_oneChain(feedbackText) ==
    LET lowerText == toLowerCase(feedbackText)
        parameters1 == SizeAdjustments(lowerText, EmptyObject)
        parameters2 == IF ObjectKeys(parameters1) = {}
                       THEN MaterialChanges(lowerText, parameters1)
                       ELSE parameters1
        functionalChanges == FunctionalChanges(lowerText)
        parameters3 ==
            IF Len(functionalChanges) > 0
            THEN SetField(parameters2, "functionalChanges", functionalChanges)
            ELSE parameters2
    IN  IF Cardinality(ObjectKeys(parameters3)) > 0 THEN parameters3 ELSE Undefined

extractFeedbackParameters(feedbackText) ==
    LET lowerText == toLowerCase(feedbackText)
        parameters0 == EmptyObject
        parameters1 == SizeAdjustments(lowerText, parameters0)
        parameters2 == MaterialChanges(lowerText, parameters1)
        functionalChanges == FunctionalChanges(lowerText)
        parameters3 ==
            IF Len(functionalChanges) > 0
            THEN SetField(parameters2, "functionalChanges", functionalChanges)
            ELSE parameters2
    IN  IF Cardinality(ObjectKeys(parameters3)) > 0 THEN parameters3 ELSE Undefined

(***************************************************************************)
(* determineFeedbackType                                                   *)
(***************************************************************************)
\* determineFeedbackType with the refinement keywords tested first
determineFeedbackType_refinementFirst(feedbackText) ==
    LET lowerText == toLowerCase(feedbackText)
    IN  IF includes(lowerText, "change") \/ includes(lowerText, "adjust")
           \/ includes(lowerText, "make it") \/ includes(lowerText, "need")
           \/ includes(lowerText, "should be") \/ includes(lowerText, "add")
           \/ includes(lowerText, "remove")
        THEN "refinement_request"
        ELSE IF includes(lowerText, "perfect") \/ includes(lowerText, "looks good")
                \/ includes(lowerText, "approve") \/ includes(lowerText, "ready")
        THEN "approval"
        ELSE "comment"

\* determineFeedbackType with the keyword "make it" cut down to "make"
determineFeedbackType_make(feedbackText) ==
    LET lowerText == toLowerCase(feedbackText)
    IN  IF includes(lowerText, "perfect") \/ includes(lowerText, "looks good")
           \/ includes(lowerText, "approve") \/ includes(lowerText, "ready")
        THEN "approval"
        ELSE IF includes(lowerText, "change") \/ includes(lowerText, "adjust")
                \/ includes(lowerText, "make") \/ includes(lowerText, "need")
                \/ includes(lowerText, "should be") \/ includes(lowerText, "add")
                \/ includes(lowerText, "remove")
        THEN "refinement_request"
        ELSE "comment"

determineFeedbackType(feedbackText) ==
    LET lowerText == toLowerCase(feedbackText)
    IN  \* Check for approval indicators
        IF includes(lowerText, "perfect") \/ includes(lowerText, "looks good")
           \/ includes(lowerText, "approve") \/ includes(lowerText, "ready")
        THEN "approval"
        \* Check for refinement requests
        ELSE IF includes(lowerText, "change") \/ includes(lowerText, "adjust")
                \/ includes(lowerText, "make it") \/ includes(lowerText, "need")
                \/ includes(lowerText, "should be") \/ includes(lowerText, "add")
                \/ includes(lowerText, "remove")
        THEN "refinement_request"
        \* Default to general comment
        ELSE "comment"

(***************************************************************************)
(* Numbers                                                                 *)
(***************************************************************************)
Whole(n) == [num |-> n, den |-> 1]
Half(n) == [num |-> n, den |-> 2]
NaN == [num |-> 0, den |-> 0]
Infinity == [num |-> 1, den |-> 0]

\* a > n and a < n for a number a and an integer literal n
Gt(a, n) == a.num > n * a.den
Lt(a, n) == a.num < n * a.den

(***************************************************************************)
(* analyzePrintability (model route)                                       *)
(***************************************************************************)
\* analyzePrintability pushing the default recommendations unconditionally
analyzePrintability_defaultsAlways(modelData) ==
    LET highVertices == Gt(modelData.vertices, 100000)
        largeFile == Gt(modelData.fileSize, 10 * 1024 * 1024)
        issues == (IF highVertices THEN <<"High vertex count may slow printing">> ELSE <<>>)
                  \o (IF largeFile THEN <<"Large file size may indicate excessive detail">>
                      ELSE <<>>)
        recommendations ==
            (IF highVertices THEN <<"Consider reducing model complexity">> ELSE <<>>)
            \o (IF largeFile THEN <<"Optimize mesh for 3D printing">> ELSE <<>>)
            \o <<"Model appears print-ready", "Recommended layer height: 0.2mm",
                 "Supports may be needed for overhangs">>
    IN  [passed |-> Len(issues) = 0, issues |-> issues, recommendations |-> recommendations]

\* analyzePrintability keeping the placeholder's passed: true
analyzePrintability_passedTrue(modelData) ==
    LET highVertices == Gt(modelData.vertices, 100000)
        largeFile == Gt(modelData.fileSize, 10 * 1024 * 1024)
        issues == (IF highVertices THEN <<"High vertex count may slow printing">> ELSE <<>>)
                  \o (IF largeFile THEN <<"Large file size may indicate excessive detail">>
                      ELSE <<>>)
        recommendations ==
            IF Len(issues) = 0
            THEN <<"Model appears print-ready", "Recommended layer height: 0.2mm",
                   "Supports may be needed for overhangs">>
            ELSE (IF highVertices THEN <<"Consider reducing model complexity">> ELSE <<>>)
                 \o (IF largeFile THEN <<"Optimize mesh for 3D printing">> ELSE <<>>)
    IN  [passed |-> TRUE, issues |-> issues, recommendations |-> recommendations]

\* analyzePrintability with >= in place of > in both rules
analyzePrintability_nonStrict(modelData) ==
    LET highVertices == ~Lt(modelData.vertices, 100000)
        largeFile == ~Lt(modelData.fileSize, 10 * 1024 * 1024)
        issues == (IF highVertices THEN <<"High vertex count may slow printing">> ELSE <<>>)
                  \o (IF largeFile THEN <<"Large file size may indicate excessive detail">>
                      ELSE <<>>)
        recommendations ==
            IF Len(issues) = 0
            THEN <<"Model appears print-ready", "Recommended layer height: 0.2mm",
                   "Supports may be needed for overhangs">>
            ELSE (IF highVertices THEN <<"Consider reducing model complexity">> ELSE <<>>)
                 \o (IF largeFile THEN <<"Optimize mesh for 3D printing">> ELSE <<>>)
    IN  [passed |-> Len(issues) = 0, issues |-> issues, recommendations |-> recommendations]

analyzePrintability(modelData) ==
    LET issues0 == <<>>
        recommendations0 == <<>>
        \* Check model complexity
        highVertices == Gt(modelData.vertices, 100000)
        issues1 == IF highVertices
                   THEN Append(issues0, "High vertex count may slow printing")
                   ELSE issues0
        recommendations1 == IF highVertices
                            THEN Append(recommendations0, "Consider reducing model complexity")
                            ELSE recommendations0
        \* Check file size
        largeFile == Gt(modelData.fileSize, 10 * 1024 * 1024)
        issues2 == IF largeFile
                   THEN Append(issues1, "Large file size may indicate excessive detail")
                   ELSE issues1
        recommendations2 == IF largeFile
                            THEN Append(recommendations1, "Optimize mesh for 3D printing")
                            ELSE recommendations1
        recommendations3 ==
            IF Len(issues2) = 0
            THEN recommendations2 \o <<"Model appears print-ready",
                                       "Recommended layer height: 0.2mm",
                                       "Supports may be needed for overhangs">>
            ELSE recommendations2
    IN  [passed |-> Len(issues2) = 0,
         issues |-> issues2,
         recommendations |-> recommendations3]

(***************************************************************************)
(* STLConverter.validateForPrinting (stl route)                            *)
(***************************************************************************)
\* the four rules of validateForPrinting, each with its own condition
validateForPrinting_rules(tooSmall, tooLarge, highFaces, lowFaces) ==
    LET issues ==
            (IF tooSmall THEN <<"Model may be too small for reliable printing">> ELSE <<>>)
            \o (IF tooLarge THEN <<"Model may be too large for some 3D printers">> ELSE <<>>)
            \o (IF highFaces THEN <<"High face count may cause slicer performance issues">>
                ELSE <<>>)
            \o (IF lowFaces THEN <<"Low face count may result in blocky appearance">>
                ELSE <<>>)
        recommendations ==
            (IF tooSmall THEN <<"Consider scaling up the model">> ELSE <<>>)
            \o (IF tooLarge THEN <<"Consider scaling down or printing in parts">> ELSE <<>>)
            \o (IF highFaces THEN <<"Consider mesh decimation to reduce complexity">>
                ELSE <<>>)
            \o (IF lowFaces THEN <<"Consider increasing mesh resolution">> ELSE <<>>)
    IN  [passed |-> Len(issues) = 0,
         issues |-> issues,
         recommendations |->
            IF Len(issues) = 0
            THEN <<"Model appears optimized for 3D printing", "Recommended infill: 15-20%",
                   "Recommended layer height: 0.2mm",
                   "Consider orientation to minimize supports">>
            ELSE recommendations]

\* validateForPrinting with < in place of > in the maximum size rule
validateForPrinting_wrongComparison(stats) ==
    validateForPrinting_rules(Lt(stats.volume, 1), Lt(stats.volume, 1000),
                              Gt(stats.faces, 50000), Lt(stats.faces, 100))

\* validateForPrinting refusing statistics that are not positive
validateForPrinting_validating(stats) ==
    IF ~Gt(stats.volume, 0) \/ ~Gt(stats.faces, 0)
    THEN [passed |-> FALSE, issues |-> <<"Invalid mesh statistics">>,
          recommendations |-> <<"Check the mesh">>]
    ELSE validateForPrinting_rules(Lt(stats.volume, 1), Gt(stats.volume, 1000),
                                   Gt(stats.faces, 50000), Lt(stats.faces, 100))

\* validateForPrinting with the four rules joined into one else-if chain
validateForPrinting_elseIf(stats) ==
    LET rule == IF Lt(stats.volume, 1)
                THEN <<"Model may be too small for reliable printing",
                       "Consider scaling up the model">>
                ELSE IF Gt(stats.volume, 1000)
                THEN <<"Model may be too large for some 3D printers",
                       "Consider scaling down or printing in parts">>
                ELSE IF Gt(stats.faces, 50000)
                THEN <<"High face count may cause slicer performance issues",
                       "Consider mesh decimation to reduce complexity">>
                ELSE IF Lt(stats.faces, 100)
                THEN <<"Low face count may result in blocky appearance",
                       "Consider increasing mesh resolution">>
                ELSE <<>>
    IN  IF rule = <<>>
        THEN [passed |-> TRUE, issues |-> <<>>,
              recommendations |-> <<"Model appears optimized for 3D printing",
                                    "Recommended infill: 15-20%",
                                    "Recommended layer height: 0.2mm",
                                    "Consider orientation to minimize supports">>]
        ELSE [passed |-> FALSE, issues |-> <<rule[1]>>, recommendations |-> <<rule[2]>>]

validateForPrinting(stats) ==
    LET issues0 == <<>>
        recommendations0 == <<>>
        \* Check minimum size
        tooSmall == Lt(stats.volume, 1)
        issues1 == IF tooSmall
                   THEN Append(issues0, "Model may be too small for reliable printing")
                   ELSE issues0
        recommendations1 == IF tooSmall
                            THEN Append(recommendations0, "Consider scaling up the model")
                            ELSE recommendations0
        \* Check maximum size
        tooLarge == Gt(stats.volume, 1000)
        issues2 == IF tooLarge
                   THEN Append(issues1, "Model may be too large for some 3D printers")
                   ELSE issues1
        recommendations2 == IF tooLarge
                            THEN Append(recommendations1, "Consider scaling down or printing in parts")
                            ELSE recommendations1
        \* Check mesh complexity
        highFaces == Gt(stats.faces, 50000)
        issues3 == IF highFaces
                   THEN Append(issues2, "High face count may cause slicer performance issues")
                   ELSE issues2
        recommendations3 == IF highFaces
                            THEN Append(recommendations2, "Consider mesh decimation to reduce complexity")
                            ELSE recommendations2
        lowFaces == Lt(stats.faces, 100)
        issues4 == IF lowFaces
                   THEN Append(issues3, "Low face count may result in blocky appearance")
                   ELSE issues3
        recommendations4 == IF lowFaces
                            THEN Append(recommendations3, "Consider increasing mesh resolution")
                            ELSE recommendations3
        \* Default recommendations for successful models
        recommendations5 ==
            IF Len(issues4) = 0
            THEN recommendations4 \o <<"Model appears optimized for 3D printing",
                                       "Recommended infill: 15-20%",
                                       "Recommended layer height: 0.2mm",
                                       "Consider orientation to minimize supports">>
            ELSE recommendations4
    IN  [passed |-> Len(issues4) = 0,
         issues |-> issues4,
         recommendations |-> recommendations5]

(***************************************************************************)
(* Inputs of the feedback functions                                        *)
(***************************************************************************)
Vocabulary ==
    { \* approval keywords, some inside a longer word or in another case
      "Perfect", "looks good", "APPROVE", "already",
      \* refinement keywords
      "change", "adjust", "Make it", "need", "should be", "add", "remove",
      \* size keywords
      "bigger", "larger", "increase size", "smaller", "reduce size", "compact",
      "wider", "broader", "taller", "higher",
      \* material keywords
      "flexible", "rubbery", "TPU", "rigid", "hard", "pla", "durable", "strong",
      "PETG", "abs",
      \* functional keywords
      "hole", "opening", "grip", "texture", "compartment", "section", "smooth",
      "Rounded",
      \* words that hold no keyword on their own
      "nice", "looks", "good", "make", "it", "increase", "size", "the color is fine",
      \* words that hold a keyword inside
      "output", "display",
      \* the sentences of the documentation
      "Make it bigger and use flexible material",
      "I want smaller, more durable",
      "bigger and wider",
      "perfect, but please add a hole",
      \* sentences with several keywords of one table
      "hard or flexible, wider, with a grip",
      "Rounded, with a hole or an opening" }

\* the fragments that longer texts are made of
CoreVocabulary ==
    { "Perfect", "add", "bigger", "wider", "flexible", "hard", "hole", "grip",
      "nice", "make", "it", "looks", "good" }

RECURSIVE TextsOf(_, _)
TextsOf(words, n) ==
    IF n = 0 THEN {""}
    ELSE IF n = 1 THEN words
    ELSE { t \o " " \o w : t \in TextsOf(words, n - 1), w \in words }

\* the empty text, every fragment, every pair of fragments, and every sequence
\* of at most MaxFragments core fragments
Texts ==
    {""} \cup Vocabulary
    \cup { a \o " " \o b : a \in Vocabulary, b \in Vocabulary }
    \cup UNION { TextsOf(CoreVocabulary, n) : n \in 0..MaxFragments }

NotReturned == [notReturned |-> TRUE]

DefaultMesh == [vertices |-> Whole(5000), faces |-> Whole(3000),
                fileSize |-> Whole(2 * 1024 * 1024), volume |-> Whole(15)]

(***************************************************************************)
(* Inputs of the printability analyzers                                    *)
(***************************************************************************)
\* the integers within Spread of a threshold
Around(n) == { Whole(k) : k \in (n - Spread)..(n + Spread) }

VertexCounts == Around(100000) \cup { Whole(0), Whole(5000), Whole(50000) }
FaceCounts == Around(100) \cup Around(50000) \cup { Whole(-1), Whole(0), Whole(200) }
FileSizes == Around(10 * 1024 * 1024) \cup { Whole(0), Whole(1000000) }
Volumes == Around(1) \cup Around(1000)
           \cup { Whole(-1), Half(1), Half(1999), Half(2001), NaN, Infinity }

MeshInputs ==
    [vertices : VertexCounts, faces : FaceCounts, fileSize : FileSizes, volume : Volumes]

(***************************************************************************)
(* JavaScript values of a request body                                     *)
(***************************************************************************)
JsUndefined == [type |-> "undefined"]
JsString(s) == [type |-> "string", value |-> s]
JsNumber(n) == [type |-> "number", value |-> n]

\* the operator typeof
typeof(v) == v.type
\* ToBoolean: undefined, the empty string and 0 are falsy
Truthy(v) ==
    CASE v.type = "undefined" -> FALSE
      [] v.type = "string" -> Len(v.value) > 0
      [] v.type = "number" -> v.value # 0

WhiteSpace == {" ", "\t", "\n"}

\* String.prototype.trim
RECURSIVE trim(_)
trim(s) ==
    IF Len(s) = 0 THEN s
    ELSE IF SubSeq(s, 1, 1) \in WhiteSpace THEN trim(SubSeq(s, 2, Len(s)))
    ELSE IF SubSeq(s, Len(s), Len(s)) \in WhiteSpace THEN trim(SubSeq(s, 1, Len(s) - 1))
    ELSE s

(***************************************************************************)
(* Firestore documents                                                     *)
(***************************************************************************)
\* a handler reads and writes no document but the one of params.id
ProjectIds == {1}
\* two requests are in flight at a time
Slots == {1, 2}
\* u1 creates the projects; u2 is a user who owns none
Users == {"u1", "u2"}

\* the snapshot of a document that does not exist
NoDocument == [exists |-> FALSE]
\* DocumentSnapshot.exists()
Exists(snapshot) == "userId" \in DOMAIN snapshot
\* updateDoc: the given fields replace those of the document
MergeFields(document, fields) == fields @@ document
\* a field of a document is set and truthy
FieldSet(document, field) == field \in DOMAIN document

\* no request in this slot
Idle == [pc |-> "idle"]
\* the body of a request that is not JSON: request.json() throws
Malformed == [malformed |-> TRUE]
IsMalformed(body) == "malformed" \in DOMAIN body

\* the NextResponse returned by a handler
Response(route, id, status, code) ==
    [pc |-> "done", route |-> route, id |-> id, status |-> status, code |-> code]

\* useState(1), useState(null), useState('demo-user')
Null == [null |-> TRUE]
InitialFlow == [currentStep |-> Whole(1), projectId |-> Null, userId |-> "demo-user"]
NoCall == [name |-> "none"]

(***************************************************************************)
(* The feedback functions applied to a text                                *)
(***************************************************************************)
InitFeedback ==
    /\ text \in Texts
    /\ feedbackType = "pending"
    /\ extractedParameters = NotReturned
    /\ meshData = DefaultMesh
    /\ verdictA = NotReturned
    /\ verdictB = NotReturned
    /\ returned = {}
    /\ projects = [id \in ProjectIds |-> NoDocument]
    /\ feedback = {}
    /\ requests = [slot \in Slots |-> Idle]
    /\ redirects = [id \in ProjectIds |-> 0]
    /\ flow = InitialFlow
    /\ lastCall = NoCall

CallExtractFeedbackParameters ==
    /\ "extractFeedbackParameters" \notin returned
    /\ extractedParameters' = extractFeedbackParameters(text)
    /\ returned' = returned \cup {"extractFeedbackParameters"}
    /\ UNCHANGED <<text, feedbackType, meshData, verdictA, verdictB>>
    /\ UNCHANGED <<apiVars, clientVars>>

CallDetermineFeedbackType ==
    /\ "determineFeedbackType" \notin returned
    /\ feedbackType' = determineFeedbackType(text)
    /\ returned' = returned \cup {"determineFeedbackType"}
    /\ UNCHANGED <<text, extractedParameters, meshData, verdictA, verdictB>>
    /\ UNCHANGED <<apiVars, clientVars>>

NextFeedback == CallExtractFeedbackParameters \/ CallDetermineFeedbackType

SpecFeedback == InitFeedback /\ [][NextFeedback]_vars

(***************************************************************************)
(* The printability analyzers applied to mesh statistics                   *)
(***************************************************************************)
InitPrintability ==
    /\ text = ""
    /\ feedbackType = "pending"
    /\ extractedParameters = NotReturned
    /\ meshData \in MeshInputs
    /\ verdictA = NotReturned
    /\ verdictB = NotReturned
    /\ returned = {}
    /\ projects = [id \in ProjectIds |-> NoDocument]
    /\ feedback = {}
    /\ requests = [slot \in Slots |-> Idle]
    /\ redirects = [id \in ProjectIds |-> 0]
    /\ flow = InitialFlow
    /\ lastCall = NoCall

CallAnalyzePrintability ==
    /\ "analyzePrintability" \notin returned
    /\ verdictA' = analyzePrintability(
                       [vertices |-> meshData.vertices, faces |-> meshData.faces,
                        fileSize |-> meshData.fileSize])
    /\ returned' = returned \cup {"analyzePrintability"}
    /\ UNCHANGED <<text, feedbackType, extractedParameters, meshData, verdictB>>
    /\ UNCHANGED <<apiVars, clientVars>>

CallValidateForPrinting ==
    /\ "validateForPrinting" \notin returned
    /\ verdictB' = validateForPrinting(
                       [vertices |-> meshData.vertices, faces |-> meshData.faces,
                        volume |-> meshData.volume])
    /\ returned' = returned \cup {"validateForPrinting"}
    /\ UNCHANGED <<text, feedbackType, extractedParameters, meshData, verdictA>>
    /\ UNCHANGED <<apiVars, clientVars>>

NextPrintability == CallAnalyzePrintability \/ CallValidateForPrinting

SpecPrintability == InitPrintability /\ [][NextPrintability]_vars

(***************************************************************************)
(* The requests of the API                                                 *)
(*                                                                         *)
(* A handler runs from one await of a Firestore or storage call to the     *)
(* next without interruption; each such stretch is one action.  A call to  *)
(* the backend either succeeds (ok) or throws.  Time stamps, identifiers   *)
(* of responses, the specifications of a project and the emoji, position   *)
(* and conceptIndex of a feedback are left out: no handler reads them.     *)
(***************************************************************************)
UserIdInputs == { JsString(u) : u \in Users } \cup { JsUndefined }
TextInputs ==
    { JsUndefined, JsNumber(42), JsString(""), JsString("   "), JsString("nice"),
      JsString("  add a hole "), JsString("perfect, but please add a hole") }
ConceptIndexInputs == { JsNumber(-1), JsNumber(0), JsNumber(3), JsNumber(4), JsString("1") }
PromptInputs == { JsUndefined, JsString("  "), JsString(" phone stand ") }

\* the bodies of the requests: every value of a field with the other field
\* valid, the valid values with every user, and a body with no field at all
Bodies(route) ==
    { Malformed } \cup
    CASE route = "feedback" ->
             [text : TextInputs, userId : {JsString("u1")}]
             \cup [text : {JsString("nice"), JsString("  add a hole ")}, userId : UserIdInputs]
             \cup {[text |-> JsUndefined, userId |-> JsUndefined]}
      [] route = "model" ->
             [conceptIndex : ConceptIndexInputs, userId : {JsString("u1")}]
             \cup [conceptIndex : {JsNumber(0), JsNumber(3)}, userId : UserIdInputs]
             \cup {[conceptIndex |-> JsUndefined, userId |-> JsUndefined]}
      [] route = "stl" -> [userId : UserIdInputs]
      [] route = "projects" ->
             [prompt : PromptInputs, userId : {JsString("u1")}]
             \cup {[prompt |-> JsString(" phone stand "), userId |-> JsUndefined]}

Routes == {"projects", "feedback", "model", "stl"}

InFlight(route) == { slot \in Slots : requests[slot].pc \notin {"idle", "done"}
                                      /\ requests[slot].route = route }
Documents == { id \in ProjectIds : Exists(projects[id]) }

\* a POST request arrives; params.id is any project id, 0 on the projects route
Receive(slot, route, id, body) ==
    /\ requests[slot] = Idle
    /\ route = "projects" =>
           /\ id = 0
           /\ Cardinality(Documents) + Cardinality(InFlight("projects")) < Cardinality(ProjectIds)
    /\ route # "projects" => id \in ProjectIds
    /\ route = "feedback" =>
           Cardinality(feedback) + Cardinality(InFlight("feedback")) < MaxFeedback
    /\ requests' = [requests EXCEPT ![slot] =
                        [pc |-> "start", route |-> route, id |-> id, body |-> body]]
    /\ UNCHANGED <<projects, feedback, functionVars, clientVars>>

\* the response has been sent
Deliver(slot) ==
    /\ requests[slot].pc = "done"
    /\ requests' = [requests EXCEPT ![slot] = Idle]
    /\ UNCHANGED <<projects, feedback, functionVars, clientVars>>

At(slot, route, pc) == requests[slot].pc = pc /\ requests[slot].route = route
Respond(slot, status, code) ==
    requests' = [requests EXCEPT ![slot] =
                    Response(requests[slot].route, requests[slot].id, status, code)]
\* a response whose data or error carries more than its code
RespondWith(slot, status, code, fields) ==
    requests' = [requests EXCEPT ![slot] =
                    fields @@ Response(requests[slot].route, requests[slot].id, status, code)]
Goto(slot, pc, fields) ==
    requests' = [requests EXCEPT ![slot] = ([pc |-> pc] @@ fields) @@ requests[slot]]

\* !userId || typeof userId !== 'string'
InvalidUserId(userId) == ~Truthy(userId) \/ typeof(userId) # "string"

(***************************************************************************)
(* POST /api/projects                                                      *)
(***************************************************************************)
\* !prompt || typeof prompt !== 'string' || prompt.trim().length === 0
InvalidPrompt(prompt) ==
    ~Truthy(prompt) \/ typeof(prompt) # "string" \/ Len(trim(prompt.value)) = 0

generateConceptImages_threeViews(prompt) ==
    << "https://via.placeholder.com/400x400/6366f1/ffffff?text=Front+View",
       "https://via.placeholder.com/400x400/8b5cf6/ffffff?text=Back+View",
       "https://via.placeholder.com/400x400/06b6d4/ffffff?text=Side+View" >>

generateConceptImages(prompt) ==
    << "https://via.placeholder.com/400x400/6366f1/ffffff?text=Front+View",
       "https://via.placeholder.com/400x400/8b5cf6/ffffff?text=Back+View",
       "https://via.placeholder.com/400x400/06b6d4/ffffff?text=Side+View",
       "https://via.placeholder.com/400x400/10b981/ffffff?text=Top+View" >>

\* the document that POST /api/projects adds
NewProject(userId, prompt) ==
    [userId |-> userId, prompt |-> trim(prompt), status |-> "generating",
     conceptsGenerated |-> FALSE, modelGenerated |-> FALSE, stlGenerated |-> FALSE,
     downloadCount |-> 0]

ProjectsValidate(slot) ==
    /\ At(slot, "projects", "start")
    /\ LET body == requests[slot].body
       IN  IF IsMalformed(body) THEN Respond(slot, 500, "GENERATION_FAILED")
           ELSE IF InvalidPrompt(body.prompt) THEN Respond(slot, 400, "INVALID_PROMPT")
           ELSE IF InvalidUserId(body.userId) THEN Respond(slot, 400, "INVALID_USER")
           ELSE requests' = [requests EXCEPT ![slot] =
                    [pc |-> "addDoc", route |-> "projects", id |-> 0,
                     userId |-> body.userId.value, prompt |-> body.prompt.value]]
    /\ UNCHANGED <<projects, feedback, functionVars, clientVars>>

ProjectsAddDoc(slot, ok) ==
    /\ At(slot, "projects", "addDoc")
    /\ IF ~ok
       THEN Respond(slot, 500, "GENERATION_FAILED") /\ UNCHANGED projects
       ELSE LET id == CHOOSE i \in ProjectIds \ Documents :
                          \A j \in ProjectIds \ Documents : i <= j
                r == requests[slot]
            IN  /\ projects' = [projects EXCEPT ![id] = NewProject(r.userId, r.prompt)]
                /\ Goto(slot, "updateConcepts",
                        [id |-> id, conceptImages |-> generateConceptImages(r.prompt)])
    /\ UNCHANGED <<feedback, functionVars, clientVars>>

ProjectsUpdateConcepts(slot, ok) ==
    /\ At(slot, "projects", "updateConcepts")
    /\ LET r == requests[slot]
       IN  IF ~ok
           THEN Respond(slot, 500, "GENERATION_FAILED") /\ UNCHANGED projects
           ELSE /\ projects' = [projects EXCEPT ![r.id] =
                        MergeFields(@, [conceptImages |-> r.conceptImages,
                                        conceptsGenerated |-> TRUE,
                                        status |-> "concepts"])]
                /\ Respond(slot, 200, "OK")
    /\ UNCHANGED <<feedback, functionVars, clientVars>>

(***************************************************************************)
(* POST /api/projects/[id]/feedback                                        *)
(***************************************************************************)
InvalidFeedbackText_noTrim(t) ==
    ~Truthy(t) \/ typeof(t) # "string"

\* !text || typeof text !== 'string' || text.trim().length === 0
InvalidFeedbackText(t) ==
    ~Truthy(t) \/ typeof(t) # "string" \/ Len(trim(t.value)) = 0

IsRefinement_parameters(type, parameters) ==
    type = "refinement_request" \/ parameters # Undefined

\* feedbackType === 'refinement_request': the project is put in status 'refining'
IsRefinement(type, parameters) == type = "refinement_request"

NewFeedback_rawText(r) ==
    [id |-> Cardinality(feedback) + 1, projectId |-> r.id, userId |-> r.userId,
     text |-> r.text, type |-> r.feedbackType, processed |-> FALSE,
     extractedParameters |-> r.extractedParameters]

\* the document that the feedback POST adds
NewFeedback(r) ==
    [id |-> Cardinality(feedback) + 1, projectId |-> r.id, userId |-> r.userId,
     text |-> trim(r.text), type |-> r.feedbackType, processed |-> FALSE,
     extractedParameters |-> r.extractedParameters]

FeedbackValidate(slot) ==
    /\ At(slot, "feedback", "start")
    /\ LET body == requests[slot].body
       IN  IF IsMalformed(body) THEN Respond(slot, 500, "FEEDBACK_FAILED")
           ELSE IF InvalidFeedbackText(body.text) THEN Respond(slot, 400, "INVALID_FEEDBACK")
           ELSE IF InvalidUserId(body.userId) THEN Respond(slot, 400, "INVALID_USER")
           ELSE requests' = [requests EXCEPT ![slot] =
                    [pc |-> "getDoc", route |-> "feedback", id |-> requests[slot].id,
                     userId |-> body.userId.value, text |-> body.text.value,
                     ownerChecked |-> FALSE]]
    /\ UNCHANGED <<projects, feedback, functionVars, clientVars>>

FeedbackGetDoc(slot, ok) ==
    /\ At(slot, "feedback", "getDoc")
    /\ LET r == requests[slot]
           projectData == projects[r.id]
       IN  IF ~ok THEN Respond(slot, 500, "FEEDBACK_FAILED")
           ELSE IF ~Exists(projectData) THEN Respond(slot, 404, "PROJECT_NOT_FOUND")
           ELSE IF projectData.userId # r.userId THEN Respond(slot, 403, "UNAUTHORIZED")
           ELSE Goto(slot, "addDoc",
                     [ownerChecked |-> TRUE,
                      extractedParameters |-> extractFeedbackParameters(r.text),
                      feedbackType |-> determineFeedbackType(r.text)])
    /\ UNCHANGED <<projects, feedback, functionVars, clientVars>>

FeedbackAddDoc(slot, ok) ==
    /\ At(slot, "feedback", "addDoc")
    /\ LET r == requests[slot]
       IN  IF ~ok THEN Respond(slot, 500, "FEEDBACK_FAILED") /\ UNCHANGED feedback
           ELSE /\ feedback' = feedback \cup { NewFeedback(r) }
                /\ IF IsRefinement(r.feedbackType, r.extractedParameters)
                   THEN Goto(slot, "updateDoc", <<>>)
                   ELSE Respond(slot, 200, "OK")
    /\ UNCHANGED <<projects, functionVars, clientVars>>

FeedbackUpdateDoc_forwardOnly(slot, ok) ==
    /\ At(slot, "feedback", "updateDoc")
    /\ LET r == requests[slot]
       IN  IF ~ok THEN Respond(slot, 500, "FEEDBACK_FAILED") /\ UNCHANGED projects
           ELSE /\ projects' = [projects EXCEPT ![r.id] =
                        IF @.status \in {"modeling", "preview", "completed"} THEN @
                        ELSE MergeFields(@, [status |-> "refining"])]
                /\ Respond(slot, 200, "OK")
    /\ UNCHANGED <<feedback, functionVars, clientVars>>

FeedbackUpdateDoc(slot, ok) ==
    /\ At(slot, "feedback", "updateDoc")
    /\ LET r == requests[slot]
       IN  IF ~ok THEN Respond(slot, 500, "FEEDBACK_FAILED") /\ UNCHANGED projects
           ELSE /\ projects' = [projects EXCEPT ![r.id] =
                        MergeFields(@, [status |-> "refining"])]
                /\ Respond(slot, 200, "OK")
    /\ UNCHANGED <<feedback, functionVars, clientVars>>

(***************************************************************************)
(* POST /api/projects/[id]/model                                           *)
(***************************************************************************)
\* const maxAttempts = 12
maxAttempts == 12

\* what EdgeOneClient.checkJobStatus can return
JobResults == [status : {"pending", "processing", "completed", "failed"},
               downloadUrl : BOOLEAN]

WaitingResults == { j \in JobResults : j.status \in {"pending", "processing"} /\ ~j.downloadUrl }
EndedResults == { j \in JobResults : j.status \in {"completed", "failed"} }

\* the results of the successive calls of checkJobStatus for one job: the job
\* is waiting for the first n calls and has ended from then on
WaitingCalls == {0, 1, maxAttempts - 1, maxAttempts}
JobHistories ==
    { [call \in 1..maxAttempts |-> IF call <= n THEN waiting ELSE ended] :
          n \in WaitingCalls,
          waiting \in WaitingResults, ended \in EndedResults }

\* while (attempts < maxAttempts) { jobResult = await checkJobStatus(...);
\*   if (completed || failed) break; await timeout; attempts++ }
RECURSIVE PollLoop(_, _, _)
PollLoop(attempts, jobResult, history) ==
    IF attempts < maxAttempts
    THEN LET result == history[attempts + 1]
         IN  IF result.status = "completed" \/ result.status = "failed"
             THEN [attempts |-> attempts, calls |-> attempts + 1, jobResult |-> result]
             ELSE PollLoop(attempts + 1, result, history)
    ELSE [attempts |-> attempts, calls |-> attempts, jobResult |-> jobResult]

\* typeof conceptIndex !== 'number' || conceptIndex < 0 || conceptIndex > 3
InvalidConceptIndex(conceptIndex) ==
    typeof(conceptIndex) # "number" \/ conceptIndex.value < 0 \/ conceptIndex.value > 3

\* !projectData.conceptsGenerated || !projectData.conceptImages
ConceptsNotReady(projectData) ==
    ~projectData.conceptsGenerated \/ ~FieldSet(projectData, "conceptImages")

\* a throw inside the try block of the model or stl POST: control is in the
\* catch block, which holds the message of the error
Throw(slot, message) ==
    requests' = [requests EXCEPT ![slot] =
                    [pc |-> "catch", route |-> requests[slot].route, id |-> requests[slot].id,
                     ownerChecked |-> IF "ownerChecked" \in DOMAIN requests[slot]
                                      THEN requests[slot].ownerChecked ELSE FALSE,
                     details |-> message]]
\* an error thrown by request.json(), Firestore or the storage
Catch(slot) == Throw(slot, "backend call failed")

ModelValidate(slot) ==
    /\ At(slot, "model", "start")
    /\ LET body == requests[slot].body
       IN  IF IsMalformed(body) THEN Catch(slot)
           ELSE IF InvalidUserId(body.userId) THEN Respond(slot, 400, "INVALID_USER")
           ELSE IF InvalidConceptIndex(body.conceptIndex)
           THEN Respond(slot, 400, "INVALID_CONCEPT")
           ELSE requests' = [requests EXCEPT ![slot] =
                    [pc |-> "getDoc", route |-> "model", id |-> requests[slot].id,
                     userId |-> body.userId.value,
                     conceptIndex |-> body.conceptIndex.value,
                     ownerChecked |-> FALSE]]
    /\ UNCHANGED <<projects, feedback, functionVars, clientVars>>

ModelGetDoc(slot, ok) ==
    /\ At(slot, "model", "getDoc")
    /\ LET r == requests[slot]
           projectData == projects[r.id]
       IN  IF ~ok THEN Catch(slot)
           ELSE IF ~Exists(projectData) THEN Respond(slot, 404, "PROJECT_NOT_FOUND")
           ELSE IF projectData.userId # r.userId THEN Respond(slot, 403, "UNAUTHORIZED")
           ELSE IF ConceptsNotReady(projectData)
           THEN Respond(slot, 400, "CONCEPTS_NOT_READY")
           \* submitFor3DReconstruction returns the job id
           ELSE Goto(slot, "updateModeling", [ownerChecked |-> TRUE, edgeOneJobId |-> slot])
    /\ UNCHANGED <<projects, feedback, functionVars, clientVars>>

ModelUpdateModeling(slot, ok) ==
    /\ At(slot, "model", "updateModeling")
    /\ LET r == requests[slot]
       IN  IF ~ok THEN Catch(slot) /\ UNCHANGED projects
           ELSE /\ projects' = [projects EXCEPT ![r.id] =
                        MergeFields(@, [status |-> "modeling",
                                        selectedConceptIndex |-> r.conceptIndex])]
                /\ Goto(slot, "poll", [attempts |-> 0, jobResult |-> JsUndefined])
    /\ UNCHANGED <<feedback, functionVars, clientVars>>

AfterLoop_anyCompleted(slot, jobResult) ==
    IF jobResult = JsUndefined \/ jobResult.status = "failed"
    THEN Throw(slot, "EdgeOne job failed or timed out")
    ELSE IF jobResult.status # "completed"
    THEN Throw(slot, "EdgeOne job did not complete successfully")
    ELSE LET r == requests[slot]
         IN  requests' = [requests EXCEPT ![slot] =
                 [pc |-> "updatePreview", jobResult |-> jobResult,
                  gltfUrl |-> [gltf |-> r.edgeOneJobId]]
                 @@ [f \in DOMAIN r \ {"attempts"} |-> r[f]]]

\* the two tests after the loop; attempts is read no more, and the catch
\* block is outside the scope of jobResult.  The error text of a failed job
\* is left out: the message is the default one
AfterLoop(slot, jobResult) ==
    IF jobResult = JsUndefined \/ jobResult.status = "failed"
    THEN Throw(slot, "EdgeOne job failed or timed out")
    ELSE IF jobResult.status # "completed" \/ ~jobResult.downloadUrl
    THEN Throw(slot, "EdgeOne job did not complete successfully")
    ELSE LET r == requests[slot]
         IN  requests' = [requests EXCEPT ![slot] =
                 [pc |-> "updatePreview", jobResult |-> jobResult,
                  gltfUrl |-> [gltf |-> r.edgeOneJobId]]
                 @@ [f \in DOMAIN r \ {"attempts"} |-> r[f]]]

\* the polling loop and the two tests after it; the loop reads and writes
\* nothing but the handler's own variables
ModelPoll(slot, history) ==
    /\ At(slot, "model", "poll")
    /\ requests[slot].attempts = 0
    /\ AfterLoop(slot, PollLoop(0, JsUndefined, history).jobResult)
    /\ UNCHANGED <<projects, feedback, functionVars, clientVars>>

ModelCheckJobStatus_offByOne(slot, jobResult) ==
    /\ At(slot, "model", "poll")
    /\ requests[slot].attempts < maxAttempts
    /\ IF jobResult.status = "completed" \/ jobResult.status = "failed"
       THEN AfterLoop(slot, jobResult)
       ELSE IF requests[slot].attempts + 1 <= maxAttempts
       THEN Goto(slot, "poll", [attempts |-> requests[slot].attempts + 1,
                                jobResult |-> jobResult])
       ELSE AfterLoop(slot, jobResult)
    /\ UNCHANGED <<projects, feedback, functionVars, clientVars>>

\* one turn of the polling loop: a call of checkJobStatus, the break or the
\* wait and attempts++, and, when the loop ends, the two tests after it
ModelCheckJobStatus(slot, jobResult) ==
    /\ At(slot, "model", "poll")
    /\ requests[slot].attempts < maxAttempts
    /\ IF jobResult.status = "completed" \/ jobResult.status = "failed"
       THEN AfterLoop(slot, jobResult)
       ELSE IF requests[slot].attempts + 1 < maxAttempts
       THEN Goto(slot, "poll", [attempts |-> requests[slot].attempts + 1,
                                jobResult |-> jobResult])
       ELSE AfterLoop(slot, jobResult)
    /\ UNCHANGED <<projects, feedback, functionVars, clientVars>>

ModelUpdatePreview(slot, ok) ==
    /\ At(slot, "model", "updatePreview")
    /\ LET r == requests[slot]
       IN  IF ~ok THEN Catch(slot) /\ UNCHANGED projects
           ELSE /\ projects' = [projects EXCEPT ![r.id] =
                        MergeFields(@, [modelGenerated |-> TRUE,
                                        modelFileUrl |-> r.gltfUrl,
                                        status |-> "preview"])]
                /\ RespondWith(slot, 200, "OK",
                       [modelData |-> [sourceConceptIndex |-> r.conceptIndex,
                                       gltfUrl |-> r.gltfUrl]])
    /\ UNCHANGED <<feedback, functionVars, clientVars>>

ModelCatch_resetsModel(slot, ok) ==
    /\ At(slot, "model", "catch")
    /\ projects' = IF ok /\ Exists(projects[requests[slot].id])
                   THEN [projects EXCEPT ![requests[slot].id] =
                            MergeFields(@, [status |-> "error", modelGenerated |-> FALSE])]
                   ELSE projects
    /\ RespondWith(slot, 500, "MODEL_GENERATION_FAILED",
                   [details |-> requests[slot].details])
    /\ UNCHANGED <<feedback, functionVars, clientVars>>

\* the catch block: updateDoc(status: 'error') on params.id, its failure ignored
ModelCatch(slot, ok) ==
    /\ At(slot, "model", "catch")
    /\ projects' = IF ok /\ Exists(projects[requests[slot].id])
                   THEN [projects EXCEPT ![requests[slot].id] =
                            MergeFields(@, [status |-> "error"])]
                   ELSE projects
    /\ RespondWith(slot, 500, "MODEL_GENERATION_FAILED",
                   [details |-> requests[slot].details])
    /\ UNCHANGED <<feedback, functionVars, clientVars>>

(***************************************************************************)
(* POST /api/projects/[id]/stl                                             *)
(***************************************************************************)
ModelNotReady_concepts(projectData) ==
    ~projectData.conceptsGenerated \/ ~FieldSet(projectData, "conceptImages")

\* !projectData.modelGenerated || !projectData.modelFileUrl
ModelNotReady(projectData) ==
    ~projectData.modelGenerated \/ ~FieldSet(projectData, "modelFileUrl")

StlValidate(slot) ==
    /\ At(slot, "stl", "start")
    /\ LET body == requests[slot].body
       IN  IF IsMalformed(body) THEN Catch(slot)
           ELSE IF InvalidUserId(body.userId) THEN Respond(slot, 400, "INVALID_USER")
           ELSE requests' = [requests EXCEPT ![slot] =
                    [pc |-> "getDoc", route |-> "stl", id |-> requests[slot].id,
                     userId |-> body.userId.value, ownerChecked |-> FALSE]]
    /\ UNCHANGED <<projects, feedback, functionVars, clientVars>>

StlGetDoc(slot, ok) ==
    /\ At(slot, "stl", "getDoc")
    /\ LET r == requests[slot]
           projectData == projects[r.id]
       IN  IF ~ok THEN Catch(slot)
           ELSE IF ~Exists(projectData) THEN Respond(slot, 404, "PROJECT_NOT_FOUND")
           ELSE IF projectData.userId # r.userId THEN Respond(slot, 403, "UNAUTHORIZED")
           ELSE IF ModelNotReady(projectData) THEN Respond(slot, 400, "MODEL_NOT_READY")
           ELSE Goto(slot, "upload", [ownerChecked |-> TRUE])
    /\ UNCHANGED <<projects, feedback, functionVars, clientVars>>

\* convertGLTFToSTL, validateForPrinting and uploadSTLFile: the upload can throw
StlUpload(slot, ok) ==
    /\ At(slot, "stl", "upload")
    /\ IF ~ok THEN Catch(slot)
       ELSE Goto(slot, "updateCompleted", [stlUrl |-> [stl |-> requests[slot].id]])
    /\ UNCHANGED <<projects, feedback, functionVars, clientVars>>

StlUpdateCompleted_noUrl(slot, ok) ==
    /\ At(slot, "stl", "updateCompleted")
    /\ LET r == requests[slot]
       IN  IF ~ok THEN Catch(slot) /\ UNCHANGED projects
           ELSE /\ projects' = [projects EXCEPT ![r.id] =
                        MergeFields(@, [stlGenerated |-> TRUE,
                                        status |-> "completed"])]
                /\ Respond(slot, 200, "OK")
    /\ UNCHANGED <<feedback, functionVars, clientVars>>

StlUpdateCompleted(slot, ok) ==
    /\ At(slot, "stl", "updateCompleted")
    /\ LET r == requests[slot]
       IN  IF ~ok THEN Catch(slot) /\ UNCHANGED projects
           ELSE /\ projects' = [projects EXCEPT ![r.id] =
                        MergeFields(@, [stlGenerated |-> TRUE,
                                        stlFileUrl |-> r.stlUrl,
                                        status |-> "completed"])]
                /\ Respond(slot, 200, "OK")
    /\ UNCHANGED <<feedback, functionVars, clientVars>>

StlCatch(slot, ok) ==
    /\ At(slot, "stl", "catch")
    /\ projects' = IF ok /\ Exists(projects[requests[slot].id])
                   THEN [projects EXCEPT ![requests[slot].id] =
                            MergeFields(@, [status |-> "error"])]
                   ELSE projects
    /\ Respond(slot, 500, "STL_CONVERSION_FAILED")
    /\ UNCHANGED <<feedback, functionVars, clientVars>>

(***************************************************************************)
(* The API                                                                 *)
(***************************************************************************)
Init ==
    /\ text = ""
    /\ feedbackType = "pending"
    /\ extractedParameters = NotReturned
    /\ meshData = DefaultMesh
    /\ verdictA = NotReturned
    /\ verdictB = NotReturned
    /\ returned = {}
    /\ projects = [id \in ProjectIds |-> NoDocument]
    /\ feedback = {}
    /\ requests = [slot \in Slots |-> Idle]
    /\ redirects = [id \in ProjectIds |-> 0]
    /\ flow = InitialFlow
    /\ lastCall = NoCall

Next ==
    \E slot \in Slots :
        \/ \E route \in Routes : \E id \in ProjectIds \cup {0} :
               \E body \in Bodies(route) : Receive(slot, route, id, body)
        \/ Deliver(slot)
        \/ ProjectsValidate(slot)
        \/ \E ok \in BOOLEAN : ProjectsAddDoc(slot, ok)
        \/ \E ok \in BOOLEAN : ProjectsUpdateConcepts(slot, ok)
        \/ FeedbackValidate(slot)
        \/ \E ok \in BOOLEAN : FeedbackGetDoc(slot, ok)
        \/ \E ok \in BOOLEAN : FeedbackAddDoc(slot, ok)
        \/ \E ok \in BOOLEAN : FeedbackUpdateDoc(slot, ok)
        \/ ModelValidate(slot)
        \/ \E ok \in BOOLEAN : ModelGetDoc(slot, ok)
        \/ \E ok \in BOOLEAN : ModelUpdateModeling(slot, ok)
        \/ \E history \in JobHistories : ModelPoll(slot, history)
        \/ \E ok \in BOOLEAN : ModelUpdatePreview(slot, ok)
        \/ \E ok \in BOOLEAN : ModelCatch(slot, ok)
        \/ StlValidate(slot)
        \/ \E ok \in BOOLEAN : StlGetDoc(slot, ok)
        \/ \E ok \in BOOLEAN : StlUpload(slot, ok)
        \/ \E ok \in BOOLEAN : StlUpdateCompleted(slot, ok)
        \/ \E ok \in BOOLEAN : StlCatch(slot, ok)

Spec == Init /\ [][Next]_vars

(***************************************************************************)
(* The model route alone, for a project whose concepts are generated; the  *)
(* polling loop takes one step for every call of checkJobStatus.           *)
(***************************************************************************)
\* the project that POST /api/projects leaves when it is answered 200
ConceptsProject ==
    MergeFields(NewProject("u1", " phone stand "),
                [conceptImages |-> generateConceptImages(" phone stand "),
                 conceptsGenerated |-> TRUE, status |-> "concepts"])

InitModel ==
    /\ text = ""
    /\ feedbackType = "pending"
    /\ extractedParameters = NotReturned
    /\ meshData = DefaultMesh
    /\ verdictA = NotReturned
    /\ verdictB = NotReturned
    /\ returned = {}
    /\ projects = [id \in ProjectIds |-> ConceptsProject]
    /\ feedback = {}
    /\ requests = [slot \in Slots |-> Idle]
    /\ redirects = [id \in ProjectIds |-> 0]
    /\ flow = InitialFlow
    /\ lastCall = NoCall

\* a step of the handler of the model POST in the slot
ModelHandler(slot) ==
    \/ ModelValidate(slot)
    \/ \E ok \in BOOLEAN : ModelGetDoc(slot, ok)
    \/ \E ok \in BOOLEAN : ModelUpdateModeling(slot, ok)
    \/ \E jobResult \in WaitingResults \cup EndedResults :
           ModelCheckJobStatus(slot, jobResult)
    \/ \E ok \in BOOLEAN : ModelUpdatePreview(slot, ok)
    \/ \E ok \in BOOLEAN : ModelCatch(slot, ok)

NextModel ==
    \E slot \in Slots :
        \/ \E id \in ProjectIds : \E body \in Bodies("model") :
               Receive(slot, "model", id, body)
        \/ Deliver(slot)
        \/ ModelValidate(slot)
        \/ \E ok \in BOOLEAN : ModelGetDoc(slot, ok)
        \/ \E ok \in BOOLEAN : ModelUpdateModeling(slot, ok)
        \/ \E jobResult \in WaitingResults \cup EndedResults :
               ModelCheckJobStatus(slot, jobResult)
        \/ \E ok \in BOOLEAN : ModelUpdatePreview(slot, ok)
        \/ \E ok \in BOOLEAN : ModelCatch(slot, ok)

SpecModel == InitModel /\ [][NextModel]_vars

\* the event loop runs every handler that can take a step
SpecModelFair == SpecModel /\ \A slot \in Slots : WF_vars(ModelHandler(slot))

(***************************************************************************)
(* GET /api/projects/[id]/stl, for a project that is completed, one that   *)
(* has no STL file yet, or none.  redirects counts the download redirects  *)
(* that have been served for each project.                                 *)
(***************************************************************************)
MaxDownloads == 3

\* the project that the stl POST leaves when it is answered 200
CompletedProject ==
    MergeFields(ConceptsProject,
                [selectedConceptIndex |-> Whole(0),
                 modelGenerated |-> TRUE, modelFileUrl |-> [gltf |-> 1],
                 stlGenerated |-> TRUE, stlFileUrl |-> [stl |-> 1],
                 status |-> "completed"])

\* searchParams.get gives null for a parameter that is absent
Queries == [userId : {Null, JsString(""), JsString("u1"), JsString("u2")},
            download : {Null, JsString("1"), JsString("true")}]

InitDownload ==
    /\ text = ""
    /\ feedbackType = "pending"
    /\ extractedParameters = NotReturned
    /\ meshData = DefaultMesh
    /\ verdictA = NotReturned
    /\ verdictB = NotReturned
    /\ returned = {}
    /\ projects \in [ProjectIds -> {CompletedProject, ConceptsProject, NoDocument}]
    /\ feedback = {}
    /\ requests = [slot \in Slots |-> Idle]
    /\ redirects = [id \in ProjectIds |-> 0]
    /\ flow = InitialFlow
    /\ lastCall = NoCall

GetReceive(slot, id, query) ==
    /\ requests[slot] = Idle
    /\ redirects[id] < MaxDownloads
    /\ requests' = [requests EXCEPT ![slot] =
                        [pc |-> "start", route |-> "stlGet", id |-> id, query |-> query]]
    /\ UNCHANGED <<projects, feedback, functionVars, clientVars>>

GetValidate(slot) ==
    /\ At(slot, "stlGet", "start")
    /\ LET userId == requests[slot].query.userId
           download == requests[slot].query.download = JsString("true")
       IN  \* !userId
           IF userId = Null \/ userId = JsString("") THEN Respond(slot, 400, "INVALID_USER")
           ELSE requests' = [requests EXCEPT ![slot] =
                    [pc |-> "getDoc", route |-> "stlGet", id |-> requests[slot].id,
                     userId |-> userId.value, download |-> download]]
    /\ UNCHANGED <<projects, feedback, functionVars, clientVars>>

\* getDoc and the tests of the snapshot; the new count is computed from the
\* snapshot before updateDoc is awaited
GetGetDoc(slot, ok) ==
    /\ At(slot, "stlGet", "getDoc")
    /\ LET r == requests[slot]
           projectData == projects[r.id]
       IN  IF ~ok THEN Respond(slot, 500, "STL_STATUS_FAILED")
           ELSE IF ~Exists(projectData) THEN Respond(slot, 404, "PROJECT_NOT_FOUND")
           ELSE IF projectData.userId # r.userId THEN Respond(slot, 403, "UNAUTHORIZED")
           ELSE IF r.download /\ FieldSet(projectData, "stlFileUrl")
           THEN Goto(slot, "updateCount",
                     [downloadCount |-> projectData.downloadCount + 1,
                      stlFileUrl |-> projectData.stlFileUrl])
           ELSE RespondWith(slot, 200, "OK", [downloadCount |-> projectData.downloadCount])
    /\ UNCHANGED <<projects, feedback, functionVars, clientVars>>

\* updateDoc(downloadCount) and the redirect
GetUpdateCount(slot, ok) ==
    /\ At(slot, "stlGet", "updateCount")
    /\ LET r == requests[slot]
       IN  IF ~ok
           THEN /\ Respond(slot, 500, "STL_STATUS_FAILED")
                /\ UNCHANGED <<projects, redirects>>
           ELSE /\ projects' = [projects EXCEPT ![r.id] =
                        MergeFields(@, [downloadCount |-> r.downloadCount])]
                /\ redirects' = [redirects EXCEPT ![r.id] = @ + 1]
                /\ RespondWith(slot, 307, "REDIRECT", [location |-> r.stlFileUrl])
    /\ UNCHANGED <<feedback, functionVars, flow, lastCall>>

NextDownload ==
    \E slot \in Slots :
        \/ \E id \in ProjectIds : \E query \in Queries : GetReceive(slot, id, query)
        \/ Deliver(slot)
        \/ GetValidate(slot)
        \/ \E ok \in BOOLEAN : GetGetDoc(slot, ok)
        \/ \E ok \in BOOLEAN : GetUpdateCount(slot, ok)

SpecDownload == InitDownload /\ [][NextDownload]_vars

(***************************************************************************)
(* The feedback route alone, for a project whose concepts are generated    *)
(***************************************************************************)
NextFeedbackPost ==
    \E slot \in Slots :
        \/ \E id \in ProjectIds : \E body \in Bodies("feedback") :
               Receive(slot, "feedback", id, body)
        \/ Deliver(slot)
        \/ FeedbackValidate(slot)
        \/ \E ok \in BOOLEAN : FeedbackGetDoc(slot, ok)
        \/ \E ok \in BOOLEAN : FeedbackAddDoc(slot, ok)
        \/ \E ok \in BOOLEAN : FeedbackUpdateDoc(slot, ok)

SpecFeedbackPost == InitModel /\ [][NextFeedbackPost]_vars

(***************************************************************************)
(* The useProjectFlow hook.  Each operation is one state update; lastCall  *)
(* records the operation and its argument.                                 *)
(***************************************************************************)
\* the comparisons >= and <= of a number with an integer: false for NaN
Ge(a, n) == a # NaN /\ a.num >= n * a.den
Le(a, n) == a # NaN /\ a.num <= n * a.den
\* prev + 1 and prev - 1
PlusOne(a) == [num |-> a.num + a.den, den |-> a.den]
MinusOne(a) == [num |-> a.num - a.den, den |-> a.den]
\* Math.min and Math.max of a number and an integer
MathMin(a, n) == IF a = NaN THEN NaN ELSE IF Lt(a, n) THEN a ELSE Whole(n)
MathMax(a, n) == IF a = NaN THEN NaN ELSE IF Gt(a, n) THEN a ELSE Whole(n)

\* the arguments of goToStep: whole steps, steps between two whole steps,
\* NaN and the infinities
StepInputs ==
    { Whole(n) : n \in -1..6 } \cup { Half(n) : n \in {1, 3, 5, 7, 9} }
    \cup { NaN, Infinity, [num |-> -1, den |-> 0] }
FlowProjectIds == { Null } \cup { JsString(id) : id \in {"p1", "p2"} }
FlowUsers == { "demo-user", "u1", "u2" }

InitFlow ==
    /\ text = ""
    /\ feedbackType = "pending"
    /\ extractedParameters = NotReturned
    /\ meshData = DefaultMesh
    /\ verdictA = NotReturned
    /\ verdictB = NotReturned
    /\ returned = {}
    /\ projects = [id \in ProjectIds |-> NoDocument]
    /\ feedback = {}
    /\ requests = [slot \in Slots |-> Idle]
    /\ redirects = [id \in ProjectIds |-> 0]
    /\ flow = InitialFlow
    /\ lastCall = NoCall

goToStep(step) ==
    /\ flow' = IF Ge(step, 1) /\ Le(step, 4) THEN [flow EXCEPT !.currentStep = step] ELSE flow
    /\ lastCall' = [name |-> "goToStep", step |-> step]
    /\ UNCHANGED <<functionVars, apiVars, redirects>>

nextStep_unbounded ==
    /\ flow' = [flow EXCEPT !.currentStep = PlusOne(@)]
    /\ lastCall' = [name |-> "nextStep"]
    /\ UNCHANGED <<functionVars, apiVars, redirects>>

nextStep ==
    /\ flow' = [flow EXCEPT !.currentStep = MathMin(PlusOne(@), 4)]
    /\ lastCall' = [name |-> "nextStep"]
    /\ UNCHANGED <<functionVars, apiVars, redirects>>

prevStep ==
    /\ flow' = [flow EXCEPT !.currentStep = MathMax(MinusOne(@), 1)]
    /\ lastCall' = [name |-> "prevStep"]
    /\ UNCHANGED <<functionVars, apiVars, redirects>>

resetFlow ==
    /\ flow' = [flow EXCEPT !.currentStep = Whole(1), !.projectId = Null]
    /\ lastCall' = [name |-> "resetFlow"]
    /\ UNCHANGED <<functionVars, apiVars, redirects>>

setProjectId(id) ==
    /\ flow' = [flow EXCEPT !.projectId = id]
    /\ lastCall' = [name |-> "setProjectId"]
    /\ UNCHANGED <<functionVars, apiVars, redirects>>

setUserId(userId) ==
    /\ flow' = [flow EXCEPT !.userId = userId]
    /\ lastCall' = [name |-> "setUserId"]
    /\ UNCHANGED <<functionVars, apiVars, redirects>>

\* currentStep is changed by the four operations only, never by the setter
\* setCurrentStep that the hook returns as well
NextFlow ==
    \/ \E step \in StepInputs : goToStep(step)
    \/ nextStep
    \/ prevStep
    \/ resetFlow
    \/ \E id \in FlowProjectIds : setProjectId(id)
    \/ \E userId \in FlowUsers : setUserId(userId)

SpecFlow == InitFlow /\ [][NextFlow]_vars


(***************************************************************************)
(* The keyword tables of the specification                                 *)
(***************************************************************************)
ApprovalKeywords == {"perfect", "looks good", "approve", "ready"}
RefinementKeywords == {"change", "adjust", "make it", "need", "should be", "add", "remove"}

SizeGroups ==
    << [label |-> "larger",  keywords |-> {"bigger", "larger", "increase size"}],
       [label |-> "smaller", keywords |-> {"smaller", "reduce size", "compact"}],
       [label |-> "wider",   keywords |-> {"wider", "broader"}],
       [label |-> "taller",  keywords |-> {"taller", "higher"}] >>

MaterialGroups ==
    << [label |-> "TPU",  keywords |-> {"flexible", "rubbery", "tpu"}],
       [label |-> "PLA",  keywords |-> {"rigid", "hard", "pla"}],
       [label |-> "PETG", keywords |-> {"durable", "strong", "petg"}],
       [label |-> "ABS",  keywords |-> {"abs"}] >>

FunctionalGroups ==
    << [label |-> "Add holes or openings", keywords |-> {"hole", "opening"}],
       [label |-> "Add grip texture",      keywords |-> {"grip", "texture"}],
       [label |-> "Add compartments",      keywords |-> {"compartment", "section"}],
       [label |-> "Smooth edges",          keywords |-> {"smooth", "rounded"}] >>

\* t contains one of the keywords, whatever the case of t's letters
MatchesAny(t, keywords) == LET lower == toLowerCase(t) IN \E k \in keywords : includes(lower, k)
\* the groups of a table that have a keyword in t
Matching(groups, t) ==
    LET lower == toLowerCase(t)
    IN  { i \in 1..Len(groups) : \E k \in groups[i].keywords : includes(lower, k) }
Least(S) == CHOOSE i \in S : \A j \in S : i <= j
\* the labels of the matching groups, in the order of the table
RECURSIVE LabelsFrom(_, _, _)
LabelsFrom(groups, t, i) ==
    IF i > Len(groups) THEN <<>>
    ELSE (IF MatchesAny(t, groups[i].keywords) THEN <<groups[i].label>> ELSE <<>>)
         \o LabelsFrom(groups, t, i + 1)

Extracted == "extractFeedbackParameters" \in returned
Classified == "determineFeedbackType" \in returned
HasField(obj, key) == key \in DOMAIN obj

(***************************************************************************)
(* C1: a text that contains an approval keyword, in any case, is           *)
(* classified 'approval', also when it contains refinement keywords.       *)
(***************************************************************************)
C1_ApprovalBeforeRefinement ==
    (Classified /\ MatchesAny(text, ApprovalKeywords)) => feedbackType = "approval"

C1_Witness ==
    /\ Classified
    /\ MatchesAny(text, ApprovalKeywords)
    /\ MatchesAny(text, RefinementKeywords)
    /\ feedbackType = "approval"

(***************************************************************************)
(* C2: a text with no keyword of any table is classified 'comment' and     *)
(* yields no parameters; the type is always one of the three.              *)
(***************************************************************************)
NoKeyword(t) ==
    /\ ~MatchesAny(t, ApprovalKeywords)
    /\ ~MatchesAny(t, RefinementKeywords)
    /\ Matching(SizeGroups, t) = {}
    /\ Matching(MaterialGroups, t) = {}
    /\ Matching(FunctionalGroups, t) = {}

C2_NoKeywordIsComment ==
    /\ (Classified /\ NoKeyword(text)) => feedbackType = "comment"
    /\ (Extracted /\ NoKeyword(text)) => DOMAIN extractedParameters = DOMAIN Undefined
    /\ Classified => feedbackType \in {"comment", "refinement_request", "approval"}

C2_Witness ==
    /\ Classified /\ Extracted
    /\ Len(text) > 0 /\ NoKeyword(text)
    /\ feedbackType = "comment"
    /\ DOMAIN extractedParameters = DOMAIN Undefined

(***************************************************************************)
(* C3: sizeAdjustment is the label of the first size group, in the order   *)
(* larger, smaller, wider, taller, that has a keyword in the text, and is  *)
(* not set when no size group matches.                                     *)
(***************************************************************************)
C3_FirstSizeGroupWins ==
    Extracted =>
        LET m == Matching(SizeGroups, text)
        IN  IF m = {} THEN ~HasField(extractedParameters, "sizeAdjustment")
            ELSE /\ HasField(extractedParameters, "sizeAdjustment")
                 /\ extractedParameters.sizeAdjustment = SizeGroups[Least(m)].label

\* the keyword of the later group comes first in the text
C3_Witness ==
    /\ Extracted
    /\ text = "wider bigger"
    /\ Matching(SizeGroups, text) = {1, 3}
    /\ extractedParameters.sizeAdjustment = "larger"

(***************************************************************************)
(* C4: materialChange is the label of the first material group, in the     *)
(* order TPU, PLA, PETG, ABS, that has a keyword in the text, whatever     *)
(* size and functional keywords the text holds.                            *)
(***************************************************************************)
C4_FirstMaterialGroupWins ==
    Extracted =>
        LET m == Matching(MaterialGroups, text)
        IN  IF m = {} THEN ~HasField(extractedParameters, "materialChange")
            ELSE /\ HasField(extractedParameters, "materialChange")
                 /\ extractedParameters.materialChange = MaterialGroups[Least(m)].label

C4_Witness ==
    /\ Extracted
    /\ {1, 2} \subseteq Matching(MaterialGroups, text)
    /\ Matching(SizeGroups, text) # {}
    /\ Matching(FunctionalGroups, text) # {}
    /\ extractedParameters.materialChange = "TPU"

(***************************************************************************)
(* C5: functionalChanges holds the label of every functional group with a  *)
(* keyword in the text, once each, in the order of the table.              *)
(***************************************************************************)
C5_FunctionalGroupsIndependent ==
    Extracted =>
        LET labels == LabelsFrom(FunctionalGroups, text, 1)
        IN  /\ labels # <<>> => HasField(extractedParameters, "functionalChanges")
            /\ HasField(extractedParameters, "functionalChanges")
                   => extractedParameters.functionalChanges = labels

\* two groups, the keyword of the later group first, the earlier group twice
C5_Witness ==
    /\ Extracted
    /\ text = "Rounded, with a hole or an opening"
    /\ extractedParameters.functionalChanges = <<"Add holes or openings", "Smooth edges">>

(***************************************************************************)
(* C6: the result is absent exactly when no size, material or functional   *)
(* group matched; otherwise it has exactly the populated fields, and       *)
(* functionalChanges is never an empty list.                               *)
(***************************************************************************)
PopulatedFields(t) ==
    (IF Matching(SizeGroups, t) # {} THEN {"sizeAdjustment"} ELSE {})
    \cup (IF Matching(MaterialGroups, t) # {} THEN {"materialChange"} ELSE {})
    \cup (IF Matching(FunctionalGroups, t) # {} THEN {"functionalChanges"} ELSE {})

C6_AbsentIffNothingMatched ==
    Extracted =>
        /\ (DOMAIN extractedParameters = DOMAIN Undefined) <=> (PopulatedFields(text) = {})
        /\ DOMAIN extractedParameters # DOMAIN Undefined
               => /\ DOMAIN extractedParameters = PopulatedFields(text)
                  /\ DOMAIN extractedParameters # {}
        /\ HasField(extractedParameters, "functionalChanges")
               => Len(extractedParameters.functionalChanges) > 0

\* a text with a classifier keyword but nothing to extract
C6_Witness ==
    /\ Extracted
    /\ MatchesAny(text, RefinementKeywords)
    /\ PopulatedFields(text) = {}
    /\ DOMAIN extractedParameters = DOMAIN Undefined

(***************************************************************************)
(* C7: a text with a 'larger' keyword, a TPU keyword and no functional     *)
(* keyword yields exactly {sizeAdjustment: 'larger', materialChange:       *)
(* 'TPU'}; the two sentences of the documentation yield the documented     *)
(* objects.                                                                *)
(***************************************************************************)
C7_DocumentedExamples ==
    Extracted =>
        /\ (/\ 1 \in Matching(SizeGroups, text)
            /\ 1 \in Matching(MaterialGroups, text)
            /\ Matching(FunctionalGroups, text) = {})
               => extractedParameters = [sizeAdjustment |-> "larger", materialChange |-> "TPU"]
        /\ text = "Make it bigger and use flexible material"
               => extractedParameters = [sizeAdjustment |-> "larger", materialChange |-> "TPU"]
        /\ text = "I want smaller, more durable"
               => extractedParameters = [sizeAdjustment |-> "smaller", materialChange |-> "PETG"]

C7_Witness ==
    /\ Extracted
    /\ text = "Make it bigger and use flexible material"
    /\ DOMAIN extractedParameters = {"sizeAdjustment", "materialChange"}

(***************************************************************************)
(* C8: in both verdicts passed is true exactly when issues is empty.       *)
(***************************************************************************)
AnalyzedA == "analyzePrintability" \in returned
ValidatedB == "validateForPrinting" \in returned

C8_PassedIffNoIssues ==
    /\ AnalyzedA => (verdictA.passed <=> Len(verdictA.issues) = 0)
    /\ ValidatedB => (verdictB.passed <=> Len(verdictB.issues) = 0)

\* one verdict of each kind
C8_Witness ==
    /\ AnalyzedA /\ ~verdictA.passed /\ Len(verdictA.issues) > 0
    /\ ValidatedB /\ verdictB.passed /\ Len(verdictB.issues) = 0

(***************************************************************************)
(* C9: analyzePrintability reports the vertex issue iff vertices > 100000  *)
(* and the file size issue iff fileSize > 10485760, in that order and      *)
(* nothing else.                                                           *)
(***************************************************************************)
IssueIf(cond, issue) == IF cond THEN <<issue>> ELSE <<>>

C9_ConfigurationAIssues ==
    AnalyzedA =>
        verdictA.issues =
            IssueIf(Gt(meshData.vertices, 100000), "High vertex count may slow printing")
            \o IssueIf(Gt(meshData.fileSize, 10485760),
                       "Large file size may indicate excessive detail")

\* both statistics exactly on their threshold
C9_Witness ==
    /\ AnalyzedA
    /\ meshData.vertices = Whole(100000)
    /\ meshData.fileSize = Whole(10485760)
    /\ verdictA.issues = <<>>

(***************************************************************************)
(* C10: validateForPrinting reports exactly the triggered rules among too  *)
(* small (volume < 1), too large (volume > 1000), high face count (faces > *)
(* 50000) and low face count (faces < 100), in that order, whatever the    *)
(* vertex count; faces = 200 with a volume below 1 gives one issue.        *)
(***************************************************************************)
C10_ConfigurationBIssues ==
    ValidatedB =>
        /\ verdictB.issues =
               IssueIf(Lt(meshData.volume, 1), "Model may be too small for reliable printing")
               \o IssueIf(Gt(meshData.volume, 1000),
                          "Model may be too large for some 3D printers")
               \o IssueIf(Gt(meshData.faces, 50000),
                          "High face count may cause slicer performance issues")
               \o IssueIf(Lt(meshData.faces, 100),
                          "Low face count may result in blocky appearance")
        /\ (meshData.faces = Whole(200) /\ Lt(meshData.volume, 1))
               => Len(verdictB.issues) = 1

\* two rules of different statistics fire together
C10_Witness ==
    /\ ValidatedB
    /\ Lt(meshData.volume, 1) /\ Lt(meshData.faces, 100)
    /\ Len(verdictB.issues) = 2

(***************************************************************************)
(* C11: recommendations is never empty; it is the fixed default list when  *)
(* issues is empty, and otherwise the recommendations of the triggered     *)
(* rules in rule order, one per issue and none of them a default.          *)
(***************************************************************************)
DefaultsA == <<"Model appears print-ready", "Recommended layer height: 0.2mm",
               "Supports may be needed for overhangs">>
DefaultsB == <<"Model appears optimized for 3D printing", "Recommended infill: 15-20%",
               "Recommended layer height: 0.2mm",
               "Consider orientation to minimize supports">>
Elements(seq) == { seq[i] : i \in 1..Len(seq) }

RuleRecommendationsA ==
    IssueIf(Gt(meshData.vertices, 100000), "Consider reducing model complexity")
    \o IssueIf(Gt(meshData.fileSize, 10485760), "Optimize mesh for 3D printing")

RuleRecommendationsB ==
    IssueIf(Lt(meshData.volume, 1), "Consider scaling up the model")
    \o IssueIf(Gt(meshData.volume, 1000), "Consider scaling down or printing in parts")
    \o IssueIf(Gt(meshData.faces, 50000), "Consider mesh decimation to reduce complexity")
    \o IssueIf(Lt(meshData.faces, 100), "Consider increasing mesh resolution")

DefaultOrSpecific(verdict, defaults, specific) ==
    /\ Len(verdict.recommendations) > 0
    /\ Len(verdict.issues) = 0 => verdict.recommendations = defaults
    /\ Len(verdict.issues) > 0
           => /\ verdict.recommendations = specific
              /\ Len(verdict.recommendations) = Len(verdict.issues)
              /\ Elements(verdict.recommendations) \cap Elements(defaults) = {}

C11_RecommendationsDefaultOrSpecific ==
    /\ AnalyzedA => DefaultOrSpecific(verdictA, DefaultsA, RuleRecommendationsA)
    /\ ValidatedB => DefaultOrSpecific(verdictB, DefaultsB, RuleRecommendationsB)

\* the clean example of the specification next to a verdict with two issues
C11_Witness ==
    /\ AnalyzedA /\ ValidatedB
    /\ meshData.vertices = Whole(50000) /\ meshData.fileSize = Whole(1000000)
    /\ verdictA.recommendations = DefaultsA
    /\ Len(verdictB.issues) = 2 /\ Len(verdictB.recommendations) = 2

(***************************************************************************)
(* C12: no issue occurs twice in a verdict; the two volume rules exclude   *)
(* each other and so do the two face count rules, so that each verdict has *)
(* at most two issues.                                                     *)
(***************************************************************************)
Distinct(seq) == \A i, j \in 1..Len(seq) : seq[i] = seq[j] => i = j

C12_IssuesDistinct ==
    /\ AnalyzedA => (Distinct(verdictA.issues) /\ Len(verdictA.issues) <= 2)
    /\ ValidatedB =>
           /\ Distinct(verdictB.issues) /\ Len(verdictB.issues) <= 2
           /\ ~({"Model may be too small for reliable printing",
                 "Model may be too large for some 3D printers"}
                    \subseteq Elements(verdictB.issues))
           /\ ~({"High face count may cause slicer performance issues",
                 "Low face count may result in blocky appearance"}
                    \subseteq Elements(verdictB.issues))

\* both verdicts with the most issues they can have
C12_Witness ==
    /\ AnalyzedA /\ Len(verdictA.issues) = 2
    /\ ValidatedB /\ Len(verdictB.issues) = 2
    /\ Gt(meshData.volume, 1000) /\ Gt(meshData.faces, 50000)

(***************************************************************************)
(* C13: both analyzers return a verdict for every number, zero, negative   *)
(* numbers, NaN and Infinity included; a volume <= 0 gives the 'too small' *)
(* issue, a face count <= 0 the 'low face count' issue, and no input is    *)
(* refused.                                                                *)
(***************************************************************************)
IsVerdict(v) ==
    /\ DOMAIN v = {"passed", "issues", "recommendations"}
    /\ v.passed \in BOOLEAN
NonPositive(a) == a.den > 0 /\ a.num <= 0
KnownIssuesB ==
    {"Model may be too small for reliable printing",
     "Model may be too large for some 3D printers",
     "High face count may cause slicer performance issues",
     "Low face count may result in blocky appearance"}

C13_AnalyzersTotal ==
    /\ ~AnalyzedA => ENABLED CallAnalyzePrintability
    /\ ~ValidatedB => ENABLED CallValidateForPrinting
    /\ AnalyzedA => IsVerdict(verdictA)
    /\ ValidatedB =>
           /\ IsVerdict(verdictB)
           /\ Elements(verdictB.issues) \subseteq KnownIssuesB
           /\ NonPositive(meshData.volume)
                  => "Model may be too small for reliable printing"
                         \in Elements(verdictB.issues)
           /\ NonPositive(meshData.faces)
                  => "Low face count may result in blocky appearance"
                         \in Elements(verdictB.issues)

C13_Witness ==
    /\ ValidatedB
    /\ meshData.volume = Whole(-1) /\ meshData.faces = Whole(0)
    /\ verdictB.issues = <<"Model may be too small for reliable printing",
                           "Low face count may result in blocky appearance">>

(***************************************************************************)
(* The requests of the API: what a step of a request does                  *)
(***************************************************************************)
\* the request of the slot takes this step
Steps(slot) == requests'[slot] # requests[slot]
StepsFrom(slot, route, pc) == At(slot, route, pc) /\ Steps(slot)
\* the request of the slot ends in this step with the response of this code
Answers(slot, status, code) ==
    /\ Steps(slot)
    /\ LET response == Response(requests[slot].route, requests[slot].id, status, code)
       IN  \A f \in DOMAIN response :
               f \in DOMAIN requests'[slot] /\ requests'[slot][f] = response[f]
Answered(slot, route, code) ==
    /\ requests[slot].pc = "done"
    /\ requests[slot].route = route
    /\ requests[slot].code = code

\* a text that is missing, not a string, empty or made of white space only
RejectedText(t) ==
    \/ t = JsUndefined
    \/ t.type # "string"
    \/ \A i \in 1..Len(t.value) : SubSeq(t.value, i, i) \in WhiteSpace

\* C15: the feedback POST answers a text that is missing, not a string, empty
\* or made of white space only with 400 INVALID_FEEDBACK in its first step,
\* before the classifier and the extractor are called, and that step adds no
\* feedback record and changes no project record; no other text is answered so.
C15_InvalidTextRejected ==
    [][\A slot \in Slots :
          /\ ( /\ StepsFrom(slot, "feedback", "start")
               /\ ~IsMalformed(requests[slot].body)
               /\ RejectedText(requests[slot].body.text) )
             => /\ Answers(slot, 400, "INVALID_FEEDBACK")
                /\ feedback' = feedback
                /\ projects' = projects
          /\ ( /\ requests[slot].pc \notin {"idle", "done"}
               /\ requests[slot].route = "feedback"
               /\ Answers(slot, 400, "INVALID_FEEDBACK") )
             => /\ requests[slot].pc = "start"
                /\ RejectedText(requests[slot].body.text)
                /\ "feedbackType" \notin DOMAIN requests[slot]
                /\ "extractedParameters" \notin DOMAIN requests[slot]
    ]_vars

C15_Witness ==
    \E slot \in Slots :
        /\ Answered(slot, "feedback", "INVALID_FEEDBACK")
        /\ requests[slot].status = 400
        /\ feedback = {}

\* the request of the slot has passed the test of its userId against the owner
OwnerChecked(slot) ==
    /\ "ownerChecked" \in DOMAIN requests[slot]
    /\ requests[slot].ownerChecked

\* C16: a step of a request to the feedback, model or stl route changes a
\* project record only if the userId of the request has been checked to be the
\* userId of the owner of that project.
C16_OnlyOwnerChanges ==
    [][\A slot \in Slots :
          ( /\ requests[slot].pc \notin {"idle", "done"}
            /\ requests[slot].route \in {"feedback", "model", "stl"}
            /\ Steps(slot)
            /\ projects' # projects )
          => OwnerChecked(slot)
    ]_vars

\* a string with a character that is not white space
NonBlankString(v) ==
    /\ v.type = "string"
    /\ \E i \in 1..Len(v.value) : SubSeq(v.value, i, i) \notin WhiteSpace
\* the other project records are the same after the step
OthersUnchanged(id) == \A other \in ProjectIds \ {id} : projects'[other] = projects[other]
\* the fields of the record but these are the same after the step
FieldsUnchanged(id, fields) ==
    \A f \in DOMAIN projects[id] \ fields :
        f \in DOMAIN projects'[id] /\ projects'[id][f] = projects[id][f]

\* C17: POST /api/projects with a valid prompt and userId adds one project
\* record in status 'generating' with conceptsGenerated, modelGenerated and
\* stlGenerated false, and a request that is answered 200 has then set it to
\* status 'concepts' with conceptsGenerated true and four concept images; in
\* every state a project with conceptsGenerated = true has four concept images.
C17_ProjectCreation ==
    /\ [](\A id \in ProjectIds :
             (Exists(projects[id]) /\ projects[id].conceptsGenerated)
             => /\ FieldSet(projects[id], "conceptImages")
                /\ Len(projects[id].conceptImages) = 4)
    /\ [][\A slot \in Slots :
             /\ ( /\ StepsFrom(slot, "projects", "start")
                  /\ ~IsMalformed(requests[slot].body)
                  /\ NonBlankString(requests[slot].body.prompt)
                  /\ NonBlankString(requests[slot].body.userId) )
                => requests'[slot].pc = "addDoc" /\ projects' = projects
             /\ StepsFrom(slot, "projects", "addDoc")
                => \/ /\ Answers(slot, 500, "GENERATION_FAILED")
                      /\ projects' = projects
                   \/ \E id \in ProjectIds :
                          /\ ~Exists(projects[id])
                          /\ Exists(projects'[id])
                          /\ projects'[id].userId = requests[slot].userId
                          /\ projects'[id].status = "generating"
                          /\ ~projects'[id].conceptsGenerated
                          /\ ~projects'[id].modelGenerated
                          /\ ~projects'[id].stlGenerated
                          /\ ~FieldSet(projects'[id], "conceptImages")
                          /\ OthersUnchanged(id)
                          /\ requests'[slot].pc = "updateConcepts"
                          /\ requests'[slot].id = id
             /\ StepsFrom(slot, "projects", "updateConcepts")
                => \/ /\ Answers(slot, 500, "GENERATION_FAILED")
                      /\ projects' = projects
                   \/ LET id == requests[slot].id
                      IN  /\ Answers(slot, 200, "OK")
                          /\ projects'[id].status = "concepts"
                          /\ projects'[id].conceptsGenerated
                          /\ Len(projects'[id].conceptImages) = 4
                          /\ FieldsUnchanged(id, {"status", "conceptsGenerated",
                                                  "conceptImages"})
                          /\ OthersUnchanged(id)
      ]_vars

C17_Witness ==
    \E slot \in Slots :
        /\ Answered(slot, "projects", "OK")
        /\ LET id == requests[slot].id
           IN  /\ projects[id].status = "concepts"
               /\ projects[id].conceptsGenerated
               /\ ~projects[id].modelGenerated /\ ~projects[id].stlGenerated
               /\ Len(projects[id].conceptImages) = 4

\* the request of the slot reads its project, which exists and is owned by
\* the userId of the request
ReadsOwnProject(slot, route) ==
    /\ StepsFrom(slot, route, "getDoc")
    /\ Exists(projects[requests[slot].id])
    /\ projects[requests[slot].id].userId = requests[slot].userId

\* C18: the model POST of the owner answers 400 CONCEPTS_NOT_READY when the
\* project has no generated concepts, the stl POST of the owner answers 400
\* MODEL_NOT_READY when the project has no generated model (unless reading
\* the project fails), neither goes on to its stage, and the step that
\* answers so leaves the project records unchanged; the two codes are given
\* in no other case.
C18_StageNeedsPredecessor ==
    [][\A slot \in Slots :
          LET id == requests[slot].id
          IN  /\ (ReadsOwnProject(slot, "model") /\ ~projects[id].conceptsGenerated)
                 => /\ \/ Answers(slot, 400, "CONCEPTS_NOT_READY")
                       \/ requests'[slot].pc = "catch"
                    /\ projects' = projects
              /\ (ReadsOwnProject(slot, "stl") /\ ~projects[id].modelGenerated)
                 => /\ \/ Answers(slot, 400, "MODEL_NOT_READY")
                       \/ requests'[slot].pc = "catch"
                    /\ projects' = projects
              /\ ( /\ requests[slot].pc \notin {"idle", "done"}
                   /\ Answers(slot, 400, "CONCEPTS_NOT_READY") )
                 => /\ ReadsOwnProject(slot, "model")
                    /\ ~projects[id].conceptsGenerated
                    /\ projects' = projects
              /\ ( /\ requests[slot].pc \notin {"idle", "done"}
                   /\ Answers(slot, 400, "MODEL_NOT_READY") )
                 => /\ ReadsOwnProject(slot, "stl")
                    /\ ~projects[id].modelGenerated
                    /\ projects' = projects
    ]_vars

C18_Witness ==
    \E s1, s2 \in Slots :
        /\ Answered(s1, "model", "CONCEPTS_NOT_READY")
        /\ Answered(s2, "stl", "MODEL_NOT_READY")
        /\ requests[s1].status = 400 /\ requests[s2].status = 400
        /\ \A id \in ProjectIds : Exists(projects[id]) /\ ~projects[id].modelGenerated

\* the place of a status in the pipeline
StatusRank(status) ==
    CASE status = "generating" -> 1
      [] status = "concepts" -> 2
      [] status = "refining" -> 3
      [] status = "modeling" -> 4
      [] status = "preview" -> 5
      [] status = "completed" -> 6
      [] OTHER -> 0
StatusChanges(id) ==
    /\ Exists(projects[id]) /\ Exists(projects'[id])
    /\ projects'[id].status # projects[id].status
\* the request of the slot writes this status in this step
Writes(slot, route, pc, status) ==
    /\ StepsFrom(slot, route, pc)
    /\ projects'[requests[slot].id].status = status

\* C19 as stated: the status of a project only moves forward in the order
\* generating, concepts, refining, modeling, preview, completed, or to 'error'.
C19_StatusOnlyForward ==
    [][\A id \in ProjectIds :
          StatusChanges(id)
          => \/ projects'[id].status = "error"
             \/ StatusRank(projects'[id].status) >= StatusRank(projects[id].status)
    ]_vars

\* C19 amended: the status of a project is the stage of the request that wrote
\* it last, whatever the status was before: a request that is answered 200
\* leaves 'concepts' (POST /api/projects), 'refining' (feedback that is a
\* refinement request), 'preview' (model POST) or 'completed' (stl POST), the
\* model POST writes 'modeling' before it polls, a failing model or stl POST
\* writes 'error', and the status changes in no other step.  A project that
\* has been 'completed' is so moved back to 'refining' or 'modeling'.
C19_StatusIsLastStage ==
    [][/\ \A slot \in Slots :
             LET id == requests[slot].id
             IN  /\ (StepsFrom(slot, "projects", "updateConcepts") /\ Answers(slot, 200, "OK"))
                    => projects'[id].status = "concepts"
                 /\ (StepsFrom(slot, "feedback", "updateDoc") /\ Answers(slot, 200, "OK"))
                    => projects'[id].status = "refining"
                 /\ (StepsFrom(slot, "model", "updateModeling") /\ requests'[slot].pc = "poll")
                    => projects'[id].status = "modeling"
                 /\ (StepsFrom(slot, "model", "updatePreview") /\ Answers(slot, 200, "OK"))
                    => projects'[id].status = "preview"
                 /\ (StepsFrom(slot, "stl", "updateCompleted") /\ Answers(slot, 200, "OK"))
                    => projects'[id].status = "completed"
       /\ \A id \in ProjectIds :
             StatusChanges(id)
             => \E slot \in Slots :
                    /\ requests[slot].pc \notin {"idle", "done"}
                    /\ requests[slot].id = id
                    /\ \/ Writes(slot, "projects", "updateConcepts", "concepts")
                       \/ Writes(slot, "feedback", "updateDoc", "refining")
                       \/ Writes(slot, "model", "updateModeling", "modeling")
                       \/ Writes(slot, "model", "updatePreview", "preview")
                       \/ Writes(slot, "stl", "updateCompleted", "completed")
                       \/ Writes(slot, "model", "catch", "error")
                       \/ Writes(slot, "stl", "catch", "error")
    ]_vars

\* a project that has been completed is back in status 'refining'
C19_Witness ==
    \E slot \in Slots :
        /\ Answered(slot, "feedback", "OK")
        /\ LET id == requests[slot].id
           IN  /\ projects[id].stlGenerated
               /\ FieldSet(projects[id], "stlFileUrl")
               /\ projects[id].status = "refining"

\* C20: a feedback POST that is answered 200 has set the status of its project
\* to 'refining' exactly if its text is classified as refinement_request; a
\* feedback POST with a text classified as approval or comment changes no
\* project record in any of its steps, also when extractFeedbackParameters
\* returns parameters for the text.
C20_RefiningIffRefinement ==
    [][\A slot \in Slots :
          ( /\ requests[slot].pc \notin {"idle", "done"}
            /\ requests[slot].route = "feedback"
            /\ Steps(slot) )
          => LET r == requests[slot]
             IN  /\ projects' # projects
                    => /\ r.pc = "updateDoc"
                       /\ determineFeedbackType(r.text) = "refinement_request"
                       /\ projects'[r.id].status = "refining"
                       /\ FieldsUnchanged(r.id, {"status"})
                       /\ DOMAIN projects'[r.id] = DOMAIN projects[r.id]
                       /\ OthersUnchanged(r.id)
                       /\ Answers(slot, 200, "OK")
                 /\ Answers(slot, 200, "OK")
                    => IF determineFeedbackType(r.text) = "refinement_request"
                       THEN r.pc = "updateDoc" /\ projects'[r.id].status = "refining"
                       ELSE r.pc = "addDoc" /\ projects' = projects
    ]_vars

\* an approval that names a hole is stored with its parameters and the project
\* is not in status 'refining'
C20_Witness ==
    \E slot \in Slots :
        /\ Answered(slot, "feedback", "OK")
        /\ projects[requests[slot].id].status = "concepts"
        /\ \E f \in feedback :
               /\ f.projectId = requests[slot].id
               /\ f.type = "approval"
               /\ HasField(f.extractedParameters, "functionalChanges")


(***************************************************************************)
(* C21: the polling loop of the model POST always terminates.  A handler   *)
(* that is about to call checkJobStatus has made at most 11 calls, so it   *)
(* makes at most 12; it polls again only after a result 'pending' or       *)
(* 'processing', one attempt later; it leaves the loop for the update to   *)
(* 'preview' only with a job 'completed' that has a download URL, and      *)
(* otherwise, a job still waiting after the 12th check included, for the   *)
(* catch block, which answers 500 MODEL_GENERATION_FAILED; and every       *)
(* handler in the loop ends with a response.                               *)
(***************************************************************************)
Polling(slot) == At(slot, "model", "poll")
C21_AtMostTwelveCalls ==
    \A slot \in Slots : Polling(slot) => requests[slot].attempts \in 0..(maxAttempts - 1)
C21_LoopStep ==
    \A slot \in Slots :
        /\ StepsFrom(slot, "model", "poll") =>
               \/ /\ requests'[slot].pc = "poll"
                  /\ requests'[slot].attempts = requests[slot].attempts + 1
                  /\ requests'[slot].jobResult.status \in {"pending", "processing"}
               \/ /\ requests'[slot].pc = "updatePreview"
                  /\ requests'[slot].jobResult.status = "completed"
                  /\ requests'[slot].jobResult.downloadUrl
               \/ requests'[slot].pc = "catch"
        /\ StepsFrom(slot, "model", "catch") => Answers(slot, 500, "MODEL_GENERATION_FAILED")
C21_PollingTerminates ==
    /\ []C21_AtMostTwelveCalls
    /\ [][C21_LoopStep]_vars
    /\ \A slot \in Slots : Polling(slot) ~> (requests[slot].pc = "done")
\* a handler about to make its 12th call while the other has timed out
C21_Witness ==
    \E slot, other \in Slots :
        /\ Polling(slot) /\ requests[slot].attempts = maxAttempts - 1
        /\ requests[slot].jobResult.status = "processing"
        /\ Answered(other, "model", "MODEL_GENERATION_FAILED")

(***************************************************************************)
(* C22: the model POST sets modelGenerated, modelFileUrl and the status    *)
(* 'preview' only for a job that ended 'completed' with a download URL;    *)
(* when the job fails or times out the handler sets the status to 'error'  *)
(* and leaves modelGenerated and modelFileUrl unchanged.                   *)
(***************************************************************************)
JobErrors == {"EdgeOne job failed or timed out", "EdgeOne job did not complete successfully"}
\* the job of the request in the slot has failed or timed out
JobLost(slot) == At(slot, "model", "catch") /\ requests[slot].details \in JobErrors
ModelFields == {"modelGenerated", "modelFileUrl"}
PreviewOnlyWhenCompleted ==
    \A id \in ProjectIds :
        (\/ projects'[id].status = "preview" /\ projects[id].status # "preview"
         \/ ~FieldsUnchanged(id, DOMAIN projects[id] \ ModelFields)
         \/ \E f \in ModelFields : HasField(projects'[id], f) /\ ~HasField(projects[id], f))
        => \E slot \in Slots :
               /\ StepsFrom(slot, "model", "updatePreview")
               /\ requests[slot].id = id
               /\ requests[slot].jobResult.status = "completed"
               /\ requests[slot].jobResult.downloadUrl
               /\ projects'[id] = MergeFields(projects[id],
                                      [modelGenerated |-> TRUE,
                                       modelFileUrl |-> requests[slot].gltfUrl,
                                       status |-> "preview"])
\* the claim as stated: a lost job always ends with the project in 'error'
C22_LostJobSetsError ==
    [][/\ PreviewOnlyWhenCompleted
       /\ \A slot \in Slots :
              JobLost(slot) /\ Steps(slot) =>
                  /\ Answers(slot, 500, "MODEL_GENERATION_FAILED")
                  /\ projects'[requests[slot].id].status = "error"
                  /\ FieldsUnchanged(requests[slot].id, DOMAIN projects[requests[slot].id] \ ModelFields)]_vars
\* amended: the write of 'error' may fail too, and then the project stays as
\* it was
C22_LostJobTriesError ==
    [][/\ PreviewOnlyWhenCompleted
       /\ \A slot \in Slots :
              JobLost(slot) /\ Steps(slot) =>
                  /\ Answers(slot, 500, "MODEL_GENERATION_FAILED")
                  /\ requests'[slot].details = requests[slot].details
                  /\ \/ projects' = [projects EXCEPT ![requests[slot].id].status = "error"]
                     \/ projects' = projects]_vars
\* a request answered 500 for a lost job, its project still in 'modeling'
\* with no other request at work
C22_Witness ==
    \E slot \in Slots :
        /\ Answered(slot, "model", "MODEL_GENERATION_FAILED")
        /\ requests[slot].details \in JobErrors
        /\ projects[requests[slot].id].status = "modeling"
        /\ \A other \in Slots \ {slot} : requests[other] = Idle

(***************************************************************************)
(* C23: in every reachable state, whatever the interleaving of requests,   *)
(* a project with stlGenerated has modelGenerated and a project with       *)
(* modelGenerated has conceptsGenerated; and no step resets one of the     *)
(* three flags from true to false.                                         *)
(***************************************************************************)
GeneratedFlags == {"conceptsGenerated", "modelGenerated", "stlGenerated"}
FlagsInOrder ==
    \A id \in ProjectIds :
        Exists(projects[id]) =>
            /\ projects[id].stlGenerated => projects[id].modelGenerated
            /\ projects[id].modelGenerated => projects[id].conceptsGenerated
NoFlagReset ==
    \A id \in ProjectIds : \A flag \in GeneratedFlags :
        (Exists(projects[id]) /\ projects[id][flag]) =>
            (Exists(projects'[id]) /\ projects'[id][flag])
C23_FlagsInPipelineOrder == []FlagsInOrder /\ [][NoFlagReset]_vars
\* a project with the three flags set that a failed request left in 'error'
C23_Witness ==
    \E id \in ProjectIds :
        /\ Exists(projects[id])
        /\ \A flag \in GeneratedFlags : projects[id][flag]
        /\ projects[id].status = "error"

(***************************************************************************)
(* C24: in every reachable state a project in status 'completed' has       *)
(* stlGenerated = true and a stlFileUrl, and a project in status 'preview' *)
(* has modelGenerated = true and a modelFileUrl.                           *)
(***************************************************************************)
C24_StatusAgreesWithArtefacts ==
    \A id \in ProjectIds :
        Exists(projects[id]) =>
            /\ projects[id].status = "completed" =>
                   projects[id].stlGenerated /\ HasField(projects[id], "stlFileUrl")
            /\ projects[id].status = "preview" =>
                   projects[id].modelGenerated /\ HasField(projects[id], "modelFileUrl")
\* a completed project that a later model request has put back in 'preview'
C24_Witness ==
    \E id \in ProjectIds :
        /\ Exists(projects[id])
        /\ projects[id].status = "preview"
        /\ projects[id].stlGenerated

(***************************************************************************)
(* C25: downloadCount tracks the downloads.  In every reachable state,     *)
(* requests that overlap in time included, the downloadCount of a project  *)
(* equals the number of download redirects that have been served for it;   *)
(* and a request for a project without stlFileUrl is never redirected and  *)
(* leaves downloadCount as it was.                                         *)
(***************************************************************************)
C25_CountTracksRedirects ==
    \A id \in ProjectIds :
        /\ Exists(projects[id]) => projects[id].downloadCount = redirects[id]
        /\ (Exists(projects[id]) /\ ~FieldSet(projects[id], "stlFileUrl")) =>
               /\ redirects[id] = 0
               /\ \A slot \in Slots : ~At(slot, "stlGet", "updateCount")

(***************************************************************************)
(* C26: when model POST requests for one project overlap, then, once all   *)
(* of them have finished, the selectedConceptIndex of the project is the   *)
(* sourceConceptIndex of the model whose gltfUrl is the modelFileUrl of    *)
(* the project.  Stated of the states where every slot holds the 200       *)
(* response of a model POST: the response that carries the stored URL      *)
(* carries the stored index.                                               *)
(***************************************************************************)
C26_SelectedConceptIsModelSource ==
    (\A slot \in Slots : Answered(slot, "model", "OK")) =>
        \A slot \in Slots :
            LET id == requests[slot].id
                modelData == requests[slot].modelData
            IN  modelData.gltfUrl = projects[id].modelFileUrl =>
                    modelData.sourceConceptIndex = projects[id].selectedConceptIndex

(***************************************************************************)
(* C27: every stored feedback record is self-consistent.  Its type and its *)
(* extractedParameters, computed by the handler from the raw text of the   *)
(* request, are determineFeedbackType and extractFeedbackParameters of the *)
(* text that the record stores, which is trimmed and not empty; it has     *)
(* processed = false; and its userId owns its project.                     *)
(***************************************************************************)
C27_FeedbackRecordConsistent ==
    \A f \in feedback :
        /\ f.text = trim(f.text) /\ Len(f.text) > 0
        /\ f.type = determineFeedbackType(f.text)
        /\ f.extractedParameters = extractFeedbackParameters(f.text)
        /\ ~f.processed
        /\ Exists(projects[f.projectId]) /\ projects[f.projectId].userId = f.userId
\* the record of a request whose text had white space around it
C27_Witness ==
    \E f \in feedback :
        /\ f.text = trim("  add a hole ") /\ f.text # "  add a hole "
        /\ f.type = "refinement_request"
        /\ HasField(f.extractedParameters, "functionalChanges")

(***************************************************************************)
(* C28: useProjectFlow keeps currentStep between 1 and 4 after any         *)
(* sequence of goToStep, nextStep, prevStep and resetFlow.  nextStep adds  *)
(* one and saturates at 4, prevStep subtracts one and saturates at 1,      *)
(* goToStep with an argument outside 1..4 leaves the step unchanged and    *)
(* with one inside sets it, and resetFlow returns to step 1 with projectId *)
(* null and userId unchanged.                                              *)
(***************************************************************************)
StepInRange(step) == step.den > 0 /\ step.num >= step.den /\ step.num <= 4 * step.den
SameNumber(a, b) == a.den > 0 /\ b.den > 0 /\ a.num * b.den = b.num * a.den
FlowStep ==
    LET step == flow.currentStep
        step2 == flow'.currentStep
    IN  /\ lastCall'.name = "nextStep" =>
               /\ step.num + step.den <= 4 * step.den =>
                      SameNumber(step2, [num |-> step.num + step.den, den |-> step.den])
               /\ step.num + step.den > 4 * step.den => step2 = Whole(4)
               /\ flow'.projectId = flow.projectId /\ flow'.userId = flow.userId
        /\ lastCall'.name = "prevStep" =>
               /\ step.num - step.den >= step.den =>
                      SameNumber(step2, [num |-> step.num - step.den, den |-> step.den])
               /\ step.num - step.den < step.den => step2 = Whole(1)
               /\ flow'.projectId = flow.projectId /\ flow'.userId = flow.userId
        /\ lastCall'.name = "goToStep" =>
               /\ flow' = IF StepInRange(lastCall'.step)
                          THEN [flow EXCEPT !.currentStep = lastCall'.step]
                          ELSE flow
        /\ lastCall'.name = "resetFlow" =>
               /\ step2 = Whole(1)
               /\ flow'.projectId = Null
               /\ flow'.userId = flow.userId
        /\ lastCall'.name \in {"setProjectId", "setUserId"} => step2 = step
C28_StepStaysInRange == []StepInRange(flow.currentStep) /\ [][FlowStep]_vars
\* nextStep called at a step above 3 for a user and a project that were set
C28_Witness ==
    /\ lastCall.name = "nextStep"
    /\ flow.currentStep = Whole(4)
    /\ flow.projectId # Null
    /\ flow.userId # "demo-user"

====
